---- MODULE Spec2Model ----
(***************************************************************************)
(* A model of LocalNode's trust-and-routing layer:                         *)
(*   - the OpenSSL certificate authority and its SNI callback              *)
(*     (certificates/openssl-ca.js),                                       *)
(*   - the host router of LocalNodeServer.start (main/server.js) and the   *)
(*     ENS name extraction of utils/routes.js,                             *)
(*   - the ENS resolver with its in-memory and durable caches              *)
(*     (ethereum/ens-resolver.js, utils/cache-manager.js),                 *)
(*   - the cache administration API (utils/cache-api.js) and the           *)
(*     auto-seeding loop of LocalNodeServer.                               *)
(*                                                                         *)
(* Strings are sequences of tokens.  A token stands for a run of           *)
(* characters that no pattern of the code can match inside of; the dot is  *)
(* a token of its own, so endsWith, includes, split and the regular        *)
(* expressions of the code are computed on the token sequence exactly as   *)
(* JavaScript computes them on the characters.                             *)
(***************************************************************************)
EXTENDS Integers, Sequences, FiniteSets, TLC

VARIABLES
    \* ---- OpenSSLCA --------------------------------------------------
    domain,             \* options.domain, bound into getSNICallback(domain)
    files,              \* the certificate directory: path -> content
    rootPrivateKeyPem,  \* this.rootPrivateKeyPem
    setup,              \* where generateCertificates() / initialize() is
    httpsOptions,       \* key and cert of the https server: the default chain
    signedByRoot,       \* history: every signing done with the root key
    nLateCalls,         \* history: generateEthCertificate() calls after initialize()
    generatedCerts,     \* this.generatedCerts: pattern -> certInfo
    sniInstalled,       \* the https server has been created with SNICallback
    serial,             \* next serial number openssl gives a certificate
    signedByIntermediate, \* history: every signing done with the intermediate key
    cacheEpoch,         \* history: number of cleanup() calls so far
    nHandshakes,        \* history: number of TLS handshakes (SNI callback calls) so far
    lastHandshake,      \* history: what the latest SNI callback call did
    served,             \* history: the chains handed out, per pattern and cache epoch
    failedPatterns,     \* history: patterns for which a handshake has failed
    \* ---- host router ----------------------------------------------
    routed,             \* the latest request and the sub-handler that got it
    helios,             \* HeliosClient: isStarted, provider, syncPromise
    server,             \* LocalNodeServer: where start() / stop() have got to
    rpc,                \* history: the latest POST on the RPC route and its answer
    \* ---- resolver, caches, cache administration, auto-seeding ------
    now,                \* Date.now()
    nTicks,             \* number of clock advances so far
    cache,              \* the cache directory: name -> [dir, records, autoSeeding]
    memoryCache,        \* ENSResolver.memoryCache: name -> [cid, expiresAt]
    pinned,             \* content store: the pinned identifiers
    mfs,                \* content store: the entries of /localnode-cache
    autoSeedingInterval, \* this.autoSeedingInterval is set
    cycles,             \* the checkAutoSeedingUpdates() calls in flight
    req,                \* the content request waiting for the resolver
    admin,              \* the toggle-auto-seed request waiting for the content store
    nOps,               \* number of requests, toggles and cycles started so far
    proxyCache,         \* setupRoutes' proxyCache: the identifiers that have a proxy
    lastEvent           \* history: what the latest step did

setupVars == <<setup, httpsOptions, signedByRoot, nLateCalls>>

caVars == <<domain, files, rootPrivateKeyPem, setupVars, generatedCerts, sniInstalled,
            serial, signedByIntermediate, cacheEpoch, nHandshakes, lastHandshake,
            served, failedPatterns>>

routerVars == <<routed, helios, server, rpc>>

seedVars == <<now, nTicks, cache, memoryCache, pinned, mfs, autoSeedingInterval,
              cycles, req, admin, nOps, proxyCache, lastEvent>>

vars == <<caVars, routerVars, seedVars>>

----------------------------------------------------------------------------
(* Bounds *)

MaxHandshakes == 3
MaxCleanups == 1
MaxLateCalls == 1
MaxLabels == 4
MaxBatch == 2
MaxTicks == 2
MaxCycles == 2
MaxOps == 2

----------------------------------------------------------------------------
(* Strings as token sequences *)

Dot == "."
Star == "*"
Null == <<"<null>">>

Str(labels) ==
    \* join a sequence of labels with dots: <<"a","b">> -> a.b
    LET RECURSIVE J(_)
        J(i) == IF i > Len(labels) THEN <<>>
                ELSE IF i = Len(labels) THEN <<labels[i]>>
                ELSE <<labels[i], Dot>> \o J(i + 1)
    IN J(1)

EndsWith(s, suf) ==
    /\ Len(suf) <= Len(s)
    /\ SubSeq(s, Len(s) - Len(suf) + 1, Len(s)) = suf

Includes(s, sub) ==
    \E i \in 1..(Len(s) - Len(sub) + 1) : SubSeq(s, i, i + Len(sub) - 1) = sub

StartsWith(s, pre) ==
    /\ Len(pre) <= Len(s)
    /\ SubSeq(s, 1, Len(pre)) = pre

Split(s) ==
    \* String.prototype.split('.'): the pieces between the dots ("" gives [""])
    LET RECURSIVE S(_, _, _)
        S(i, cur, acc) ==
            IF i > Len(s) THEN Append(acc, cur)
            ELSE IF s[i] = Dot THEN S(i + 1, <<>>, Append(acc, cur))
            ELSE S(i + 1, Append(cur, s[i]), acc)
    IN S(1, <<>>, <<>>)

ReplaceAll(s, from, to) ==
    \* String.prototype.replace(/from/g, to) for a one-token pattern
    [i \in 1..Len(s) |-> IF s[i] = from THEN to ELSE s[i]]

----------------------------------------------------------------------------
(* OpenSSLCA: certificates/openssl-ca.js *)

Domains == { <<"localhost">>, <<"test">> }

\* Server names a TLS client may announce (any byte string without NUL).
ServerNames(dom) ==
    { <<>>,
      Str(<<"vitalik", "eth">>) \o <<Dot>> \o dom,
      Str(<<"blog", "wildcard", "eth">>) \o <<Dot>> \o dom,
      Str(<<"www", "wildcard", "eth">>) \o <<Dot>> \o dom,
      Str(<<"a", "blog", "wildcard", "eth">>) \o <<Dot>> \o dom,
      Str(<<"x", Star, "eth">>) \o <<Dot>> \o dom,
      Str(<<"admin", "node">>) \o <<Dot>> \o dom,
      Str(<<"node">>) \o <<Dot>> \o dom,
      Str(<<"evil", "com">>) }

\* What can go wrong inside one SNI callback: an openssl child process that
\* exits with an error (req, x509) or tls.createSecureContext throwing.  (genrsa
\* is not run: start() fails unless the shared server key exists.)
Faults == {"none", "req", "x509", "ctx"}

rootCertPath == <<"root-ca-cert.pem">>
intermediateKeyPath == <<"intermediate-ca-key.pem">>
intermediateCertPath == <<"intermediate-ca-cert.pem">>
serverKeyPath == <<"server-key.pem">>
ethCertPath == <<"eth-cert.pem">>
nodeCertPath == <<"node-cert.pem">>

NoIssuer == "none"
KeyFile(name) ==
    [kind |-> "key", subject |-> <<name>>, san |-> {}, issuer |-> NoIssuer, serial |-> 0]
TempFile(name) ==
    [kind |-> "tmp", subject |-> name, san |-> {}, issuer |-> NoIssuer, serial |-> 0]
Cert(subject, san, issuer, n) ==
    [kind |-> "cert", subject |-> subject, san |-> san, issuer |-> issuer, serial |-> n]

\* nameConstraints = critical,permitted;DNS:.eth.localhost
\* A name is within the constraint when it is the constraint's domain or has
\* labels added on its left (RFC 5280, 4.2.1.10).
PermittedSuffix == <<Dot, "eth", Dot, "localhost">>
WithinConstraint(name) ==
    EndsWith(name, PermittedSuffix) \/ name = Tail(PermittedSuffix)

Exists(fs, path) == path \in DOMAIN fs
WriteFile(fs, path, content) ==
    [p \in DOMAIN fs \cup {path} |-> IF p = path THEN content ELSE fs[p]]
Unlink(fs, path) == [p \in DOMAIN fs \ {path} |-> fs[p]]

\* The certificates of a first-time setup.  initialize() passes 'localhost'
\* to generateEthCertificate and generateNodeCertificate whatever the domain.
RootCert == Cert(<<"LocalNode Root CA">>, {}, "root", 1)
IntermediateCert == Cert(<<"LocalNode Intermediate CA">>, {PermittedSuffix}, "root", 2)
EthCert ==
    Cert(Str(<<Star, "eth", "localhost">>),
         {Str(<<Star, "eth", "localhost">>), Str(<<"eth", "localhost">>)}, "root", 3)
NodeCert ==
    Cert(Str(<<Star, "node", "localhost">>),
         {Str(<<Star, "node", "localhost">>), Str(<<"node", "localhost">>)}, "root", 4)

\* The files initialize() leaves behind after a first-time setup.
SetupFiles ==
    [p \in {rootCertPath, intermediateKeyPath, intermediateCertPath,
            serverKeyPath, ethCertPath, nodeCertPath} |->
        CASE p = rootCertPath -> RootCert
          [] p = intermediateKeyPath -> KeyFile("intermediate")
          [] p = intermediateCertPath -> IntermediateCert
          [] p = serverKeyPath -> KeyFile("server")
          [] p = ethCertPath -> EthCert
          [] OTHER -> NodeCert]

\* ---- first-time setup: initialize() and the operations it awaits ----

tempRootKeyPath == <<".temp-root-key.pem">>

\* What `openssl genrsa 4096` prints: the root private key
RootKeyPem == <<"root-key">>

\* The openssl command of a setup operation that exits with an error.
SetupFaults == {"none", "genrsa", "req", "x509"}

\* A setup operation has thrown / returned: the certificate directory and
\* this.rootPrivateKeyPem as it leaves them, and what it signed with the root key.
SetupThrown(fs, key) == [err |-> TRUE, files |-> fs, key |-> key, signed |-> {}]
SetupReturned(fs, key, signed) == [err |-> FALSE, files |-> fs, key |-> key, signed |-> signed]

\* a completeness test that looks at the intermediate CA only
allCertsExistWithoutLeaves(fs) ==
    Exists(fs, intermediateCertPath) /\ Exists(fs, intermediateKeyPath)

allCertsExist(fs) ==
    /\ Exists(fs, intermediateCertPath) /\ Exists(fs, intermediateKeyPath)
    /\ Exists(fs, ethCertPath) /\ Exists(fs, nodeCertPath)

createRootCA(fs, key, fault) ==
    IF fault = "genrsa" THEN SetupThrown(fs, key)
    ELSE IF fault = "req"
    THEN SetupThrown(WriteFile(fs, tempRootKeyPath, KeyFile("root")), RootKeyPem)
    ELSE SetupReturned(
            Unlink(WriteFile(WriteFile(fs, tempRootKeyPath, KeyFile("root")),
                             rootCertPath, RootCert),
                   tempRootKeyPath),
            RootKeyPem, {})

\* x509 -req ... -CA root -CAkey <temporary root key file>, and what follows it
rootSign(fs, key, fault, certPath, cert, csrPath, extPath) ==
    IF key = Null
    THEN SetupThrown(fs, key)   \* fs.writeFileSync(tempRootKeyPath, null) throws
    ELSE IF fault = "x509"
    THEN SetupThrown(WriteFile(fs, tempRootKeyPath, KeyFile("root")), key)
    ELSE SetupReturned(
            Unlink(Unlink(Unlink(WriteFile(fs, certPath, cert), tempRootKeyPath),
                          csrPath), extPath),
            key, {cert})

createIntermediateCA(fs, key, fault) ==
    IF fault = "genrsa" THEN SetupThrown(fs, key)
    ELSE IF fault = "req"
    THEN SetupThrown(WriteFile(fs, intermediateKeyPath, KeyFile("intermediate")), key)
    ELSE LET intermediateCSRPath == <<"intermediate-ca.csr">>
             intermediateExtPath == <<"intermediate-ext.cnf">>
         IN  rootSign(WriteFile(WriteFile(WriteFile(fs, intermediateKeyPath,
                                                    KeyFile("intermediate")),
                                          intermediateCSRPath, TempFile(<<"intermediate">>)),
                                intermediateExtPath, TempFile(<<"intermediate">>)),
                      key, fault, intermediateCertPath, IntermediateCert,
                      intermediateCSRPath, intermediateExtPath)

\* ---- lazy issuance ----

\* a derivation that keeps every label but the first
extractENSPatternDropFirst(hostname, dom) ==
    LET suffix == <<Dot, "eth", Dot>> \o dom
    IN  IF ~EndsWith(hostname, suffix) THEN Null
        ELSE LET ensPath == SubSeq(hostname, 1, Len(hostname) - Len(suffix))
                 parts == Split(ensPath)
             IN  IF Len(parts) = 1
                 THEN <<Star, Dot, "eth", Dot>> \o dom
                 ELSE <<Star, Dot>> \o Str([i \in 1..(Len(parts) - 1) |-> parts[i + 1][1]])
                      \o <<Dot, "eth", Dot>> \o dom

extractENSPattern(hostname, dom) ==
    LET suffix == <<Dot, "eth", Dot>> \o dom
    IN  IF ~EndsWith(hostname, suffix) THEN Null
        ELSE LET ensPath == SubSeq(hostname, 1, Len(hostname) - Len(suffix))
                 parts == Split(ensPath)
             IN  IF Len(parts) = 1
                 THEN <<Star, Dot, "eth", Dot>> \o dom
                 ELSE <<Star, Dot>> \o parts[Len(parts)] \o <<Dot, "eth", Dot>> \o dom

certBaseName(pattern) == ReplaceAll(ReplaceAll(pattern, Star, "wildcard"), Dot, "-")
certPathOf(pattern) == certBaseName(pattern) \o <<"-cert.pem">>
csrPathOf(pattern) == certBaseName(pattern) \o <<".csr">>
extPathOf(pattern) == certBaseName(pattern) \o <<"-ext.cnf">>

\* subjectAltName of a lazily generated leaf: DNS.1 = pattern, DNS.2 = base form
altNames(pattern) ==
    IF StartsWith(pattern, <<Star, Dot>>)
    THEN {pattern, SubSeq(pattern, 3, Len(pattern))}
    ELSE {pattern}

HasCert(certs, pattern) == pattern \in DOMAIN certs
SetCert(certs, pattern, info) ==
    [p \in DOMAIN certs \cup {pattern} |-> IF p = pattern THEN info ELSE certs[p]]

\* The part of the state one issuance reads and writes.
CAState == [files |-> files, certs |-> generatedCerts, serial |-> serial,
            signed |-> signedByIntermediate]
Thrown(st) == [err |-> TRUE, info |-> Null, st |-> st]
Returned(info, st) == [err |-> FALSE, info |-> info, st |-> st]

ensureServerKey(st, fault) ==
    IF Exists(st.files, serverKeyPath) THEN Returned(serverKeyPath, st)
    ELSE IF fault = "genrsa" THEN Thrown(st)
    ELSE Returned(serverKeyPath,
                  [st EXCEPT !.files = WriteFile(@, serverKeyPath, KeyFile("server"))])

\* a well-known leaf, from the shared key on: request, extension file, signing
rootSignLeaf(k, key, fault, certPath, cert, csrPath, extPath) ==
    IF k.err \/ fault = "req" THEN SetupThrown(k.st.files, key)
    ELSE rootSign(WriteFile(WriteFile(k.st.files, csrPath, TempFile(cert.subject)),
                            extPath, TempFile(cert.subject)),
                  key, fault, certPath, cert, csrPath, extPath)

generateEthCertificate(fs, key, fault) ==
    rootSignLeaf(ensureServerKey([files |-> fs], fault), key, fault,
                 ethCertPath, EthCert, <<"eth.csr">>, <<"eth-ext.cnf">>)

generateNodeCertificate(fs, key, fault) ==
    rootSignLeaf(ensureServerKey([files |-> fs], fault), key, fault,
                 nodeCertPath, NodeCert, <<"node.csr">>, <<"node-ext.cnf">>)

\* LocalNodeServer.start() after generateCertificates(): the default key and
\* chain are read and the https server is created with the SNI callback.
NoOptions == [key |-> Null, cert |-> <<>>]
httpsOptionsOf(fs) ==
    [key |-> fs[serverKeyPath], cert |-> <<fs[ethCertPath], fs[rootCertPath]>>]

\* x509 -req ... -CA intermediate -CAkey intermediateKey: signs whatever names
\* the request and the extension file carry.
signWithIntermediate(st, pattern, cert, epoch) ==
    [st EXCEPT !.files = WriteFile(@, certPathOf(pattern), cert),
               !.serial = @ + 1,
               !.signed = @ \cup {[cert |-> cert, epoch |-> epoch]}]

\* a generation that removes its temporary files and forgets to store the leaf
storeWithoutCache(st, pattern, certInfo) ==
    [st EXCEPT !.files = Unlink(Unlink(@, csrPathOf(pattern)), extPathOf(pattern))]

\* fs.unlinkSync(csrPath); fs.unlinkSync(extPath); this.generatedCerts.set(...)
storeInCache(st, pattern, certInfo) ==
    [st EXCEPT !.files = Unlink(Unlink(@, csrPathOf(pattern)), extPathOf(pattern)),
               !.certs = SetCert(@, pattern, certInfo)]

\* from the signing on: sign, remove the temporary files, store, return
generateSigned(pattern, fault, keyPath, st, epoch) ==
    IF ~(Exists(st.files, intermediateCertPath) /\ Exists(st.files, intermediateKeyPath))
       \/ fault = "x509"
    THEN Thrown(st)
    ELSE Returned([keyPath |-> keyPath, certPath |-> certPathOf(pattern), pattern |-> pattern],
                  storeInCache(
                     signWithIntermediate(
                        st, pattern,
                        Cert(pattern, altNames(pattern), "intermediate", st.serial), epoch),
                     pattern,
                     [keyPath |-> keyPath, certPath |-> certPathOf(pattern),
                      pattern |-> pattern]))

\* from the shared key on: the signing request and the extension file
generateRequest(pattern, fault, k, epoch) ==
    IF k.err \/ fault = "req" THEN Thrown(k.st)
    ELSE generateSigned(pattern, fault, k.info,
                        [k.st EXCEPT !.files =
                            WriteFile(WriteFile(@, csrPathOf(pattern), TempFile(pattern)),
                                      extPathOf(pattern), TempFile(pattern))],
                        epoch)

generateForPattern(pattern, fault, st, epoch) ==
    IF pattern = Null THEN Thrown(st)
    ELSE IF HasCert(st.certs, pattern) THEN Returned(st.certs[pattern], st)
    ELSE generateRequest(pattern, fault, ensureServerKey(st, fault), epoch)

generateWildcardCertificateSync(hostname, dom, fault, st, epoch) ==
    generateForPattern(extractENSPattern(hostname, dom), fault, st, epoch)

\* What the SNI callback hands to its callback argument.
NoContext == [kind |-> "none", key |-> <<>>, chain |-> <<>>]
DefaultContext == [kind |-> "default", key |-> <<>>, chain |-> <<>>]
SecureContext(key, chain) == [kind |-> "context", key |-> key, chain |-> chain]

\* One run of the SNI callback: the callback calls it made, where its try
\* block threw ("" when it did not), and the state it left.
NotThrown == ""
Outcome(calls, threw, ctx, pattern, st) ==
    [calls |-> calls, threw |-> threw, ctx |-> ctx, pattern |-> pattern, st |-> st]

\* a node branch that hands out the three-level chain of the lazy leaves
sniNodeContextFullChain(fault, st) ==
    IF /\ Exists(st.files, serverKeyPath) /\ Exists(st.files, nodeCertPath)
       /\ Exists(st.files, rootCertPath) /\ fault # "ctx"
    THEN Outcome(1, NotThrown,
                 SecureContext(st.files[serverKeyPath],
                               <<st.files[nodeCertPath], st.files[intermediateCertPath],
                                 st.files[rootCertPath]>>),
                 Null, st)
    ELSE Outcome(0, "context", NoContext, Null, st)

\* node.<domain>: node cert + root cert, no intermediate
sniNodeContext(fault, st) ==
    IF /\ Exists(st.files, serverKeyPath) /\ Exists(st.files, nodeCertPath)
       /\ Exists(st.files, rootCertPath) /\ fault # "ctx"
    THEN Outcome(1, NotThrown,
                 SecureContext(st.files[serverKeyPath],
                               <<st.files[nodeCertPath], st.files[rootCertPath]>>),
                 Null, st)
    ELSE Outcome(0, "context", NoContext, Null, st)

\* load key and chain of the leaf g.info and hand the context to the callback
sniLoadContext(pattern, fault, g) ==
    IF g.err THEN Outcome(0, "generate", NoContext, pattern, g.st)
    ELSE IF /\ Exists(g.st.files, g.info.keyPath)
            /\ Exists(g.st.files, g.info.certPath)
            /\ Exists(g.st.files, intermediateCertPath)
            /\ Exists(g.st.files, rootCertPath)
            /\ fault # "ctx"
    THEN Outcome(1, NotThrown,
                 SecureContext(g.st.files[g.info.keyPath],
                               <<g.st.files[g.info.certPath],
                                 g.st.files[intermediateCertPath],
                                 g.st.files[rootCertPath]>>),
                 pattern, g.st)
    ELSE Outcome(0, "context", NoContext, pattern, g.st)

\* a dispatch that treats the default scope like any other pattern
sniForPatternNoDefault(pattern, servername, dom, fault, st, epoch) ==
    IF pattern = Null
    THEN Outcome(1, NotThrown, DefaultContext, pattern, st)
    ELSE sniLoadContext(pattern, fault,
            IF HasCert(st.certs, pattern)
            THEN Returned(st.certs[pattern], st)
            ELSE generateWildcardCertificateSync(servername, dom, fault, st, epoch))

sniForPattern(pattern, servername, dom, fault, st, epoch) ==
    IF pattern = Null \/ pattern = <<Star, Dot, "eth", Dot>> \o dom
    THEN Outcome(1, NotThrown, DefaultContext, pattern, st)
    ELSE sniLoadContext(pattern, fault,
            IF HasCert(st.certs, pattern)
            THEN Returned(st.certs[pattern], st)
            ELSE generateWildcardCertificateSync(servername, dom, fault, st, epoch))

sniTryBlock(servername, dom, fault, st, epoch) ==
    IF \/ EndsWith(servername, <<Dot, "node", Dot>> \o dom)
       \/ servername = <<"node", Dot>> \o dom
    THEN sniNodeContext(fault, st)
    ELSE sniForPattern(extractENSPattern(servername, dom), servername, dom, fault, st, epoch)

\* a catch block that logs the error and returns without calling back
sniCatchBlockSilent(o) == o

\* catch (error) { callback(error) }
sniCatchBlock(o) == IF o.threw # NotThrown THEN [o EXCEPT !.calls = @ + 1] ELSE o

SNICallback(servername, dom, fault, st, epoch) ==
    IF servername = <<>>
    THEN Outcome(1, NotThrown, DefaultContext, Null, st)
    ELSE sniCatchBlock(sniTryBlock(servername, dom, fault, st, epoch))

NoHandshake ==
    [seq |-> 0, servername |-> <<>>, pattern |-> Null, calls |-> 0, err |-> NotThrown,
     ctx |-> NoContext]

\* ---- actions ----

\* initialize() has returned: generateCertificates() verifies the key and the
\* default certificate, start() reads the default chain and creates the server.
ServerCreated(fs) ==
    IF Exists(fs, serverKeyPath) /\ Exists(fs, ethCertPath) /\ Exists(fs, rootCertPath)
    THEN /\ setup' = "ready"
         /\ sniInstalled' = TRUE
         /\ httpsOptions' = httpsOptionsOf(fs)
    ELSE /\ setup' = "failed"
         /\ UNCHANGED <<sniInstalled, httpsOptions>>

SetupUnchanged ==
    /\ UNCHANGED <<domain, generatedCerts, serial, signedByIntermediate, cacheEpoch,
                   nHandshakes, lastHandshake, served, failedPatterns, nLateCalls>>
    /\ UNCHANGED <<routerVars, seedVars>>

\* generateCertificates() in LocalNodeServer.start(): initialize() up to its
\* first await (or, when the on-disk set is complete, to the server's creation)
Initialize ==
    /\ setup = "new"
    /\ IF allCertsExist(files)
       THEN ServerCreated(files)
       ELSE /\ setup' = "createRootCA"
            /\ UNCHANGED <<sniInstalled, httpsOptions>>
    /\ UNCHANGED <<files, rootPrivateKeyPem, signedByRoot>>
    /\ SetupUnchanged

\* an operation initialize() awaits has returned or thrown
SetupStep(next, r) ==
    /\ files' = r.files
    /\ rootPrivateKeyPem' = r.key
    /\ signedByRoot' = signedByRoot \cup {[cert |-> c, late |-> FALSE] : c \in r.signed}
    /\ IF r.err THEN /\ setup' = "failed"
                      /\ UNCHANGED <<sniInstalled, httpsOptions>>
       ELSE IF next = "ready" THEN ServerCreated(r.files)
       ELSE /\ setup' = next
            /\ UNCHANGED <<sniInstalled, httpsOptions>>

CreateRootCA ==
    /\ setup = "createRootCA"
    /\ \E fault \in SetupFaults :
         SetupStep("createIntermediateCA", createRootCA(files, rootPrivateKeyPem, fault))
    /\ SetupUnchanged

CreateIntermediateCA ==
    /\ setup = "createIntermediateCA"
    /\ \E fault \in SetupFaults :
         SetupStep("generateEthCertificate",
                   createIntermediateCA(files, rootPrivateKeyPem, fault))
    /\ SetupUnchanged

GenerateEthCertificate ==
    /\ setup = "generateEthCertificate"
    /\ \E fault \in SetupFaults :
         SetupStep("generateNodeCertificate",
                   generateEthCertificate(files, rootPrivateKeyPem, fault))
    /\ SetupUnchanged

GenerateNodeCertificate ==
    /\ setup = "generateNodeCertificate"
    /\ \E fault \in SetupFaults :
         SetupStep("ready", generateNodeCertificate(files, rootPrivateKeyPem, fault))
    /\ SetupUnchanged

LateCallDone(r) ==
    /\ files' = r.files
    /\ rootPrivateKeyPem' = r.key
    /\ signedByRoot' = signedByRoot \cup {[cert |-> c, late |-> TRUE] : c \in r.signed}

\* generateEthCertificate() is called on the instance after initialize() has
\* returned (its openssl commands succeed)
GenerateEthCertificateAgain ==
    /\ setup = "ready"
    /\ nLateCalls < MaxLateCalls
    /\ LateCallDone(generateEthCertificate(files, rootPrivateKeyPem, "none"))
    /\ nLateCalls' = nLateCalls + 1
    /\ UNCHANGED <<domain, setup, httpsOptions, sniInstalled, generatedCerts, serial,
                   signedByIntermediate, cacheEpoch, nHandshakes, lastHandshake, served,
                   failedPatterns>>
    /\ UNCHANGED <<routerVars, seedVars>>

\* The process ends and is started again: a new OpenSSLCA over the same
\* certificate directory.
Restart ==
    /\ setup \in {"ready", "failed"}
    /\ setup' = "new"
    /\ rootPrivateKeyPem' = Null
    /\ generatedCerts' = <<>>
    /\ httpsOptions' = NoOptions
    /\ sniInstalled' = FALSE
    /\ UNCHANGED <<domain, files, signedByRoot, nLateCalls, serial, signedByIntermediate,
                   cacheEpoch, nHandshakes, lastHandshake, served, failedPatterns>>
    /\ UNCHANGED <<routerVars, seedVars>>

HandshakeDone(servername, o) ==
    /\ files' = o.st.files
    /\ generatedCerts' = o.st.certs
    /\ serial' = o.st.serial
    /\ signedByIntermediate' = o.st.signed
    /\ nHandshakes' = nHandshakes + 1
    /\ lastHandshake' =
           [seq |-> nHandshakes + 1, servername |-> servername, pattern |-> o.pattern,
            calls |-> o.calls, err |-> o.threw, ctx |-> o.ctx]
    /\ failedPatterns' = IF o.threw = "generate" THEN failedPatterns \cup {o.pattern}
                         ELSE failedPatterns
    /\ served' = IF o.ctx.kind = "context" /\ o.pattern # Null
                 THEN served \cup {[pattern |-> o.pattern, epoch |-> cacheEpoch,
                                    chain |-> o.ctx.chain]}
                 ELSE served

\* One TLS handshake: the SNI callback runs to completion (it is synchronous).
Handshake ==
    /\ sniInstalled
    /\ nHandshakes < MaxHandshakes
    /\ \E servername \in ServerNames(domain), fault \in Faults :
         HandshakeDone(servername,
                       SNICallback(servername, domain, fault, CAState, cacheEpoch))
    /\ UNCHANGED <<domain, rootPrivateKeyPem, setupVars, sniInstalled, cacheEpoch>>
    /\ UNCHANGED <<routerVars, seedVars>>

\* a cleanup() that removes the key file of every cached entry as well
CleanupWithKeys ==
    /\ sniInstalled
    /\ cacheEpoch < MaxCleanups
    /\ files' = [p \in DOMAIN files \ UNION {{generatedCerts[q].certPath,
                                                generatedCerts[q].keyPath} :
                                               q \in DOMAIN generatedCerts}
                    |-> files[p]]
    /\ generatedCerts' = <<>>
    /\ cacheEpoch' = cacheEpoch + 1
    /\ UNCHANGED <<domain, rootPrivateKeyPem, setupVars, sniInstalled, serial,
                   signedByIntermediate, nHandshakes, lastHandshake, served,
                   failedPatterns>>
    /\ UNCHANGED <<routerVars, seedVars>>

\* cleanup(): delete the certificate file of every cached entry, clear the cache.
Cleanup ==
    /\ sniInstalled
    /\ cacheEpoch < MaxCleanups
    /\ files' = [p \in DOMAIN files \ {generatedCerts[q].certPath : q \in DOMAIN generatedCerts}
                    |-> files[p]]
    /\ generatedCerts' = <<>>
    /\ cacheEpoch' = cacheEpoch + 1
    /\ UNCHANGED <<domain, rootPrivateKeyPem, setupVars, sniInstalled, serial,
                   signedByIntermediate, nHandshakes, lastHandshake, served,
                   failedPatterns>>
    /\ UNCHANGED <<routerVars, seedVars>>


----------------------------------------------------------------------------
(* The host router of LocalNodeServer.start and the ENS proxy's first check *)

\* Labels a Host header is built from.  <<"x", "node">> is the one label
\* "xnode": a label that ends in the letters of another.
HostLabels(dom) ==
    { <<"ethereum">>, <<"node">>, <<"x", "node">>, <<"eth">>, <<"x">>, dom }

RECURSIVE HostsOfLength(_, _)
HostsOfLength(n, dom) ==
    IF n = 1 THEN HostLabels(dom)
    ELSE { l \o <<Dot>> \o h : l \in HostLabels(dom), h \in HostsOfLength(n - 1, dom) }

Hosts(dom) == UNION { HostsOfLength(n, dom) : n \in 1..MaxLabels }

\* The letters of a token in upper case.
UpperOf ==
    [t \in {"ethereum", "node", "x", "eth", "localhost", "test"} |->
        CASE t = "ethereum" -> "ETHEREUM"
          [] t = "node" -> "NODE"
          [] t = "x" -> "X"
          [] t = "eth" -> "ETH"
          [] t = "localhost" -> "LOCALHOST"
          [] OTHER -> "TEST"]

toUpperCase(s) ==
    [i \in 1..Len(s) |-> IF s[i] \in DOMAIN UpperOf THEN UpperOf[s[i]] ELSE s[i]]

\* The port the https server listens on, as it appears in a Host header.
Colon == ":"
PortSuffix == <<Colon, "8443">>

\* req.headers.host: a host name as the client spells it, with or without
\* the port (RFC 9110, 7.2: uri-host [ ":" port ], the host case-insensitive).
HostHeaders(dom) ==
    Hosts(dom)
    \cup { toUpperCase(h) : h \in Hosts(dom) }
    \cup { h \o PortSuffix : h \in Hosts(dom) }

\* ^(.+)\.eth\.<domainSuffix>$
extractENSDomain(host, domainSuffix) ==
    LET suffix == <<Dot, "eth", Dot>> \o domainSuffix
    IN  IF EndsWith(host, suffix) /\ Len(host) > Len(suffix)
        THEN SubSeq(host, 1, Len(host) - Len(suffix)) \o <<Dot, "eth">>
        ELSE Null

\* app.get('*'): 404 unless the host carries an ENS name
ensProxyApp(host, dom) ==
    IF extractENSDomain(host, dom) = Null THEN "404" ELSE "content"

\* combinedApp.use((req, res, next) => ...)
combinedApp(host, dom) ==
    IF Includes(host, <<"ethereum", Dot, "node", Dot>>) THEN "rpc"
    ELSE IF Includes(host, <<"node", Dot, "localhost">>) THEN "cache"
    ELSE ensProxyApp(host, dom)

\* The ENS name the content proxy works with (none on the other routes).
ensDomainOf(handler, host, dom) ==
    IF handler \in {"content", "404"} THEN extractENSDomain(host, dom) ELSE Null

Routed(host, handler, dom) ==
    [host |-> host, handler |-> handler, ensDomain |-> ensDomainOf(handler, host, dom)]

NoRequest == [host |-> <<>>, handler |-> "none", ensDomain |-> Null]

\* One request arriving at the https server.
Route ==
    /\ routed = NoRequest
    /\ \E host \in HostHeaders(domain) :
         routed' = Routed(host, combinedApp(host, domain), domain)
    /\ UNCHANGED <<helios, server, rpc>>
    /\ UNCHANGED <<caVars, seedVars>>

\* The sub-handler ends the response.
Respond ==
    /\ routed # NoRequest
    /\ routed' = NoRequest
    /\ UNCHANGED <<helios, server, rpc>>
    /\ UNCHANGED <<caVars, seedVars>>

----------------------------------------------------------------------------
(* ENS resolution, the durable cache, cache administration, auto-seeding *)

Names == {"a.eth"}
\* getAllCachedDomains() sorts its list by name
NameOrder == <<"a.eth", "b.eth">>

\* A content identifier string: its multibase prefix and the CID it encodes.
CidA == <<"b", "A">>
CidB == <<"b", "B">>
\* the identifier of CidA in base58btc instead of base32
CidAz == <<"z", "A">>
Cids == {CidA, CidB}

\* CID.parse(s)
CIDparse(s) == [version |-> 1, multihash |-> s[2]]
\* CID.parse(a).equals(CID.parse(b))
CidEquals(a, b) == CIDparse(a) = CIDparse(b)

cacheTtl == 12000

\* What the resolution collaborator answers: a CID, or an error.
\* The messages of the errors a resolution can end with: the name has no
\* resolver (thrown inside resolveEnsDomain), it has no content hash, or the
\* call failed for another reason (offline, RPC down, not initialized).
NoResolverFound(name) == <<"No resolver found", " for ", name>>
NoContentHashFound(name) == <<"No content hash", " found for ", name>>
FetchFailed == <<"fetch failed">>
ResolverErrors ==
    {NoResolverFound(n) : n \in Names} \cup {NoContentHashFound(n) : n \in Names}
    \cup {FetchFailed}
ResolverOutcomes ==
    {[ok |-> TRUE, cid |-> c, error |-> <<>>] : c \in Cids}
    \cup {[ok |-> FALSE, cid |-> Null, error |-> e] : e \in ResolverErrors}

Put(f, k, v) == [x \in DOMAIN f \cup {k} |-> IF x = k THEN v ELSE f[x]]
Remove(f, k) == [x \in DOMAIN f \ {k} |-> f[x]]
MaxOf(S) == CHOOSE x \in S : \A y \in S : y <= x

\* A domain directory: <timestamp>.txt records and the auto-seeding flag file.
NoDir == [dir |-> FALSE, records |-> <<>>, autoSeeding |-> FALSE]
DirWith(records, autoSeeding) ==
    [dir |-> TRUE, records |-> records, autoSeeding |-> autoSeeding]

getLatestCid(c, name) ==
    IF ~c[name].dir \/ DOMAIN c[name].records = {} THEN Null
    ELSE c[name].records[MaxOf(DOMAIN c[name].records)]

\* a save that appends a record whatever the latest one is
saveCidAlways(c, name, cid, t) ==
    [cache |-> [c EXCEPT ![name] = DirWith(Put(@.records, t, cid), @.autoSeeding)],
     wrote |-> TRUE]

saveCidIfChanged(c, name, cid, t) ==
    IF getLatestCid(c, name) = cid THEN [cache |-> c, wrote |-> FALSE]
    ELSE [cache |-> [c EXCEPT ![name] =
                        DirWith(Put(@.records, t, cid), @.autoSeeding)],
          wrote |-> TRUE]

\* a save whose catch block rethrows the error of writeFileSync
saveOnDiskRethrow(sv, c, diskOk) ==
    IF diskOk \/ ~sv.wrote THEN [cache |-> sv.cache, wrote |-> sv.wrote, threw |-> FALSE]
    ELSE [cache |-> c, wrote |-> FALSE, threw |-> TRUE]

\* saveCidIfChanged on a disk that may refuse the write: mkdirSync or
\* writeFileSync throws, the catch block logs and returns false
saveOnDisk(sv, c, diskOk) ==
    IF diskOk \/ ~sv.wrote THEN [cache |-> sv.cache, wrote |-> sv.wrote, threw |-> FALSE]
    ELSE [cache |-> c, wrote |-> FALSE, threw |-> FALSE]

isAutoSeedingEnabled(c, name) == c[name].dir /\ c[name].autoSeeding

getAllCachedDomains(c) ==
    LET RECURSIVE L(_)
        L(i) == IF i > Len(NameOrder) THEN <<>>
                ELSE IF NameOrder[i] \notin DOMAIN c THEN L(i + 1)
                ELSE IF getLatestCid(c, NameOrder[i]) = Null THEN L(i + 1)
                ELSE <<[domain |-> NameOrder[i],
                        cid |-> getLatestCid(c, NameOrder[i]),
                        autoSeeding |-> isAutoSeedingEnabled(c, NameOrder[i])]>>
                     \o L(i + 1)
    IN  L(1)

\* domains.filter(d => d.autoSeeding)
autoSeedingDomains(c) == SelectSeq(getAllCachedDomains(c), LAMBDA d : d.autoSeeding)

\* a memory cache check that does not look at expiresAt
memoryLookupAnyAge(mem, name, t) ==
    IF name \in DOMAIN mem
    THEN [hit |-> TRUE, cid |-> mem[name].cid, mem |-> mem]
    ELSE [hit |-> FALSE, cid |-> Null, mem |-> mem]

\* resolveENS up to its first await: the memory cache check
memoryLookup(mem, name, t) ==
    IF name \in DOMAIN mem /\ mem[name].expiresAt > t
    THEN [hit |-> TRUE, cid |-> mem[name].cid, mem |-> mem]
    ELSE [hit |-> FALSE, cid |-> Null, mem |-> Remove(mem, name)]

MemoryEntry(cid, t) == [cid |-> cid, expiresAt |-> t + cacheTtl]

\* throw new Error(`Cannot resolve ${domain}: ${error.message} (no cache available)`)
resolveError(name, message) ==
    <<"Cannot resolve ", name, ": ">> \o message \o <<" (no cache available)">>

\* a catch block that rethrows without looking at the durable cache
resolveRethrow(mem, cachedCid, name, t) == [err |-> TRUE, cid |-> Null, mem |-> mem]

\* resolveENS, catch block: fall back to the durable cache or rethrow
resolveCatch(mem, cachedCid, name, t) ==
    IF cachedCid # Null
    THEN [err |-> FALSE, cid |-> cachedCid, mem |-> Put(mem, name, MemoryEntry(cachedCid, t))]
    ELSE [err |-> TRUE, cid |-> Null, mem |-> mem]

\* resolveENS after the collaborator has answered
resolveSettle(mem, c, name, outcome, t) ==
    IF outcome.ok
    THEN [err |-> FALSE, cid |-> outcome.cid,
          mem |-> Put(mem, name, MemoryEntry(outcome.cid, t))]
    ELSE resolveCatch(mem, getLatestCid(c, name), name, t)

\* The calls an operation makes to the content store and to the cache.
NoCall == [op |-> "none", cid |-> Null, opts |-> ""]
cpRequest(cid) == [op |-> "files.cp", cid |-> cid, opts |-> "parents"]
pinRequest(cid) == [op |-> "pin.add", cid |-> cid, opts |-> "recursive"]
unpinRequest(cid) == [op |-> "pin.rm", cid |-> cid, opts |-> ""]
saveCall(cid) == [op |-> "saveCidIfChanged", cid |-> cid, opts |-> ""]

\* One checkAutoSeedingUpdates() call: where it waits, its list of domains,
\* the domain it is at, and the calls updateAutoSeedingDomain has made.
IdleCycle == [pc |-> "idle", list |-> <<>>, idx |-> 0, newCid |-> Null, calls |-> <<>>]
CycleAt(pc, list, idx, newCid, calls) ==
    [pc |-> pc, list |-> list, idx |-> idx, newCid |-> newCid, calls |-> calls]

\* updateAutoSeedingDomain up to its first await
updateBegin(list, idx, newCid) == CycleAt("cp", list, idx, newCid, <<cpRequest(newCid)>>)
\* an update that goes on to the save without asking for a pin
updateWithoutPin(slot) == [slot EXCEPT !.pc = "pin"]

\* ... from files.cp's answer to its second await
updateAfterCopy(slot) == [slot EXCEPT !.pc = "pin", !.calls = Append(@, pinRequest(slot.newCid))]

RECURSIVE cycleAdvance(_, _, _, _)
RECURSIVE cycleLookup(_, _, _, _)
RECURSIVE cycleCompare(_, _, _, _, _)

\* the for loop of checkAutoSeedingUpdates, from domain idx on, as far as it
\* runs without waiting
cycleAdvance(list, idx, mem, t) ==
    IF idx > Len(list) THEN [slot |-> IdleCycle, mem |-> mem]
    ELSE cycleLookup(list, idx, memoryLookup(mem, list[idx].domain, t), t)

cycleLookup(list, idx, l, t) ==
    IF l.hit THEN cycleCompare(list, idx, l.cid, l.mem, t)
    ELSE [slot |-> CycleAt("resolve", list, idx, Null, <<>>), mem |-> l.mem]

\* a comparison of the two strings instead of the two CIDs
cycleCompareStrings(list, idx, newCid, mem, t) ==
    IF list[idx].cid = newCid THEN cycleAdvance(list, idx + 1, mem, t)
    ELSE [slot |-> updateBegin(list, idx, newCid), mem |-> mem]

\* checkDomainUpdate after resolveENS has returned newCid
cycleCompare(list, idx, newCid, mem, t) ==
    IF CidEquals(list[idx].cid, newCid) THEN cycleAdvance(list, idx + 1, mem, t)
    ELSE [slot |-> updateBegin(list, idx, newCid), mem |-> mem]

\* a catch block that gives up the whole cycle
cycleAbort(list, idx, mem, t) == [slot |-> IdleCycle, mem |-> mem]

\* checkDomainUpdate, catch block: the error is logged, the call returns and
\* the for loop goes on with the next domain
cycleAfterError(list, idx, mem, t) == cycleAdvance(list, idx + 1, mem, t)

\* checkDomainUpdate after resolveENS has settled with r
cycleResolved(slot, r, t) ==
    IF r.err THEN cycleAfterError(slot.list, slot.idx, r.mem, t)
    ELSE cycleCompare(slot.list, slot.idx, r.cid, r.mem, t)

\* enableAutoSeeding up to its await
enableAutoSeedingBegin(c, name, cid) ==
    [cache |-> [c EXCEPT ![name].dir = TRUE],
     err |-> cid = Null,
     request |-> IF cid = Null THEN NoCall ELSE pinRequest(cid)]

\* an enableAutoSeeding that writes the flag file whatever pin.add answered
enableAutoSeedingOptimistic(c, name, ok) ==
    [cache |-> [c EXCEPT ![name].autoSeeding = TRUE], err |-> ~ok]

\* enableAutoSeeding after pin.add has answered
enableAutoSeedingAfterPin(c, name, ok) ==
    IF ok THEN [cache |-> [c EXCEPT ![name].autoSeeding = TRUE], err |-> FALSE]
    ELSE [cache |-> c, err |-> TRUE]

\* disableAutoSeeding up to its await
disableAutoSeedingBegin(c, name, cid) ==
    [cache |-> [c EXCEPT ![name].autoSeeding = FALSE],
     err |-> FALSE,
     request |-> IF cid = Null THEN NoCall ELSE unpinRequest(cid)]

\* a disableAutoSeeding that rethrows the error of pin.rm
disableAutoSeedingStrict(ok) == [err |-> ~ok]

\* disableAutoSeeding after pin.rm has answered
disableAutoSeedingAfterUnpin(ok) == [err |-> FALSE]

\* an error page that calls every failure "not found"
errorStatusNotFound(message) == "404"

\* app.get('*'), catch block: the status of the error page
errorStatus(message) ==
    IF \/ Includes(message, <<"No resolver found">>)
       \/ Includes(message, <<"No content hash">>)
    THEN "404"
    ELSE "500"

IdleRequest == [pc |-> "idle", name |-> ""]
IdleAdmin == [pc |-> "idle", name |-> "", request |-> NoCall]

NoEvent ==
    [kind |-> "none", slot |-> 0, name |-> "", ok |-> TRUE, err |-> FALSE,
     cid |-> Null, old |-> Null, saved |-> FALSE, wrote |-> FALSE, calls |-> <<>>,
     status |-> "", message |-> <<>>]

InFlight == {i \in DOMAIN cycles : cycles[i].pc # "idle"}
FreeSlot == CHOOSE i \in DOMAIN cycles :
                /\ cycles[i].pc = "idle"
                /\ \A j \in DOMAIN cycles : cycles[j].pc = "idle" => i <= j

\* ---- actions ----

\* Time passes: a millisecond, or as long as a memory cache entry lives.
Tick ==
    /\ nTicks < MaxTicks
    /\ \E d \in {1, cacheTtl} : now' = now + d
    /\ nTicks' = nTicks + 1
    /\ lastEvent' = [NoEvent EXCEPT !.kind = "tick"]
    /\ UNCHANGED <<cache, memoryCache, pinned, mfs, autoSeedingInterval, cycles, req,
                   admin, nOps>>
    /\ UNCHANGED <<caVars, routerVars, proxyCache>>

\* checkAutoSeedingUpdates() is called and runs to its first await (or its end)
CycleStarted(kind, i, r) ==
    /\ cycles' = [cycles EXCEPT ![i] = r.slot]
    /\ memoryCache' = r.mem
    /\ nOps' = nOps + 1
    /\ lastEvent' = [NoEvent EXCEPT !.kind = kind, !.slot = i]
    /\ UNCHANGED <<now, nTicks, cache, pinned, mfs, req, admin>>
    /\ UNCHANGED <<caVars, routerVars, proxyCache>>

\* startAutoSeedingLoop()
StartLoop ==
    /\ ~autoSeedingInterval
    /\ nOps < MaxOps
    /\ InFlight # DOMAIN cycles
    /\ CycleStarted("start", FreeSlot,
                    cycleAdvance(autoSeedingDomains(cache), 1, memoryCache, now))
    /\ autoSeedingInterval' = TRUE

\* a start that does not look at autoSeedingInterval: one more immediate cycle
startAgainAnyway(slots, mem, list, t) ==
    IF {i \in DOMAIN slots : slots[i].pc = "idle"} = {} THEN [cycles |-> slots, mem |-> mem]
    ELSE LET i == CHOOSE i \in DOMAIN slots : slots[i].pc = "idle"
             r == cycleAdvance(list, 1, mem, t)
         IN  [cycles |-> [slots EXCEPT ![i] = r.slot], mem |-> r.mem]

\* startAutoSeedingLoop() with autoSeedingInterval set: `return; // Already running`
startAgain(slots, mem, list, t) == [cycles |-> slots, mem |-> mem]

StartedAgain(r) ==
    /\ cycles' = r.cycles
    /\ memoryCache' = r.mem
    /\ nOps' = nOps + 1
    /\ lastEvent' = [NoEvent EXCEPT !.kind = "start-again"]
    /\ UNCHANGED <<now, nTicks, cache, pinned, mfs, autoSeedingInterval, req, admin>>
    /\ UNCHANGED <<caVars, routerVars, proxyCache>>

\* startAutoSeedingLoop() while the loop is running
StartLoopAgain ==
    /\ autoSeedingInterval
    /\ nOps < MaxOps
    /\ StartedAgain(startAgain(cycles, memoryCache, autoSeedingDomains(cache), now))

\* the setInterval callback
TimerTick ==
    /\ autoSeedingInterval
    /\ nOps < MaxOps
    /\ InFlight # DOMAIN cycles
    /\ CycleStarted("timer", FreeSlot,
                    cycleAdvance(autoSeedingDomains(cache), 1, memoryCache, now))
    /\ UNCHANGED autoSeedingInterval

\* stopAutoSeedingLoop()
StopLoop ==
    /\ autoSeedingInterval
    /\ autoSeedingInterval' = FALSE
    /\ lastEvent' = [NoEvent EXCEPT !.kind = "stop"]
    /\ UNCHANGED <<now, nTicks, cache, memoryCache, pinned, mfs, cycles, req, admin, nOps>>
    /\ UNCHANGED <<caVars, routerVars, proxyCache>>

CycleMoved(i, r) ==
    /\ cycles' = [cycles EXCEPT ![i] = r.slot]
    /\ memoryCache' = r.mem

CycleSettled(i, outcome, r) ==
    /\ CycleMoved(i, cycleResolved(cycles[i], r, now))
    /\ lastEvent' = [NoEvent EXCEPT !.kind = "resolved", !.slot = i,
                                    !.name = cycles[i].list[cycles[i].idx].domain,
                                    !.ok = outcome.ok, !.err = r.err, !.cid = r.cid,
                                    !.old = cycles[i].list[cycles[i].idx].cid]

\* a cycle's resolveENS settles
CycleResolved ==
    /\ \E i \in DOMAIN cycles :
         /\ cycles[i].pc = "resolve"
         /\ \E outcome \in ResolverOutcomes :
              CycleSettled(i, outcome,
                           resolveSettle(memoryCache, cache,
                                         cycles[i].list[cycles[i].idx].domain,
                                         outcome, now))
    /\ UNCHANGED <<now, nTicks, cache, pinned, mfs, autoSeedingInterval, req, admin, nOps>>
    /\ UNCHANGED <<caVars, routerVars, proxyCache>>

CycleEvent(kind, i, ok) ==
    [NoEvent EXCEPT !.kind = kind, !.slot = i,
                    !.name = cycles[i].list[cycles[i].idx].domain,
                    !.ok = ok, !.err = ~ok, !.cid = cycles[i].newCid,
                    !.old = cycles[i].list[cycles[i].idx].cid]

\* a cycle's files.cp answers
CycleCopied ==
    /\ \E i \in DOMAIN cycles :
         /\ cycles[i].pc = "cp"
         /\ \E ok \in BOOLEAN :
              /\ IF ok
                 THEN /\ mfs' = mfs \cup {cycles[i].newCid}
                      /\ CycleMoved(i, [slot |-> updateAfterCopy(cycles[i]),
                                        mem |-> memoryCache])
                 ELSE /\ mfs' = mfs
                      /\ CycleMoved(i, cycleAfterError(cycles[i].list, cycles[i].idx,
                                                       memoryCache, now))
              /\ lastEvent' = [CycleEvent("copied", i, ok) EXCEPT !.calls = cycles[i].calls]
    /\ UNCHANGED <<now, nTicks, cache, pinned, autoSeedingInterval, req, admin, nOps>>
    /\ UNCHANGED <<caVars, routerVars, proxyCache>>

\* updateAutoSeedingDomain from pin.add's answer to its end
CycleUpdated(i, sv) ==
    /\ cache' = sv.cache
    /\ lastEvent' = [CycleEvent("updated", i, TRUE) EXCEPT
                        !.saved = TRUE, !.wrote = sv.wrote,
                        !.calls = Append(cycles[i].calls, saveCall(cycles[i].newCid))]

\* a cycle's pin.add answers
CyclePinned ==
    /\ \E i \in DOMAIN cycles :
         /\ cycles[i].pc = "pin"
         /\ \E ok \in BOOLEAN :
              /\ IF ok
                 THEN /\ pinned' = pinned \cup {cycles[i].newCid}
                      /\ CycleUpdated(i, saveCidIfChanged(
                                            cache, cycles[i].list[cycles[i].idx].domain,
                                            cycles[i].newCid, now))
                      /\ CycleMoved(i, cycleAdvance(cycles[i].list, cycles[i].idx + 1,
                                                    memoryCache, now))
                 ELSE /\ pinned' = pinned
                      /\ cache' = cache
                      /\ lastEvent' = [CycleEvent("pinned", i, FALSE) EXCEPT
                                          !.calls = cycles[i].calls]
                      /\ CycleMoved(i, cycleAfterError(cycles[i].list, cycles[i].idx,
                                                       memoryCache, now))
    /\ UNCHANGED <<now, nTicks, mfs, autoSeedingInterval, req, admin, nOps>>
    /\ UNCHANGED <<caVars, routerVars, proxyCache>>

\* the ENS route from resolveENS's return on: saveCidIfChanged, then the proxy
RequestServed(kind, name, ok, cid, sv) ==
    /\ cache' = sv.cache
    /\ proxyCache' = proxyCache \cup {cid}
    /\ lastEvent' = [NoEvent EXCEPT !.kind = kind, !.name = name, !.ok = ok, !.cid = cid,
                                    !.saved = TRUE, !.wrote = sv.wrote,
                                    !.err = sv.threw,
                                    !.status = "proxied"]

RequestLooked(name, l) ==
    /\ memoryCache' = l.mem
    /\ IF l.hit
       THEN /\ req' = IdleRequest
            /\ \E diskOk \in BOOLEAN :
                 RequestServed("hit", name, TRUE, l.cid,
                               saveOnDisk(saveCidIfChanged(cache, name, l.cid, now),
                                          cache, diskOk))
       ELSE /\ req' = [pc |-> "resolving", name |-> name]
            /\ cache' = cache
            /\ proxyCache' = proxyCache
            /\ lastEvent' = [NoEvent EXCEPT !.kind = "request", !.name = name]

\* app.get('*') for the host of an ENS name, up to the await in resolveENS
Request ==
    /\ req.pc = "idle"
    /\ nOps < MaxOps
    /\ \E name \in Names : RequestLooked(name, memoryLookup(memoryCache, name, now))
    /\ nOps' = nOps + 1
    /\ UNCHANGED <<now, nTicks, pinned, mfs, autoSeedingInterval, cycles, admin>>
    /\ UNCHANGED <<caVars, routerVars>>

RequestSettled(name, outcome, r) ==
    /\ memoryCache' = r.mem
    /\ IF r.err
       THEN /\ cache' = cache
            /\ proxyCache' = proxyCache
            /\ lastEvent' = [NoEvent EXCEPT !.kind = "resolved", !.name = name,
                                            !.ok = outcome.ok, !.err = TRUE,
                                            !.message = resolveError(name, outcome.error),
                                            !.status = errorStatus(
                                                resolveError(name, outcome.error))]
       ELSE \E diskOk \in BOOLEAN :
               RequestServed("resolved", name, outcome.ok, r.cid,
                             saveOnDisk(saveCidIfChanged(cache, name, r.cid, now),
                                        cache, diskOk))

\* the request's resolveENS settles
RequestResolved ==
    /\ req.pc = "resolving"
    /\ \E outcome \in ResolverOutcomes :
         RequestSettled(req.name, outcome,
                        resolveSettle(memoryCache, cache, req.name, outcome, now))
    /\ req' = IdleRequest
    /\ UNCHANGED <<now, nTicks, pinned, mfs, autoSeedingInterval, cycles, admin, nOps>>
    /\ UNCHANGED <<caVars, routerVars>>

\* The await in resolveENS never settles: the light client does not finish
\* syncing (waitForSync) or the resolver call gets no answer.  No timer of the
\* program runs beside the await.
RequestStalls ==
    /\ req.pc = "resolving"
    /\ req' = [req EXCEPT !.pc = "stalled"]
    /\ lastEvent' = [NoEvent EXCEPT !.kind = "stalled", !.name = req.name]
    /\ UNCHANGED <<now, nTicks, cache, memoryCache, pinned, mfs, autoSeedingInterval,
                   cycles, admin, nOps>>
    /\ UNCHANGED <<caVars, routerVars, proxyCache>>

\* What the proxy middleware meets: the gateway answers 200, answers with
\* another status, or the forwarding fails (onError, or next(err)).
ProxyOutcomes == {"200", "other", "error"}

\* a proxy stage whose error handler sends nothing
proxyStatusSilent(outcome) == IF outcome = "error" THEN "" ELSE "upstream"

\* the status the client gets from the proxy stage
proxyStatus(outcome) == IF outcome = "error" THEN "500" ELSE "upstream"

\* a copy that rejects towards its caller when files.cp fails
cacheCidInMfsStrict(m, cid, ok) ==
    IF cid \in m THEN [mfs |-> m, threw |-> FALSE]
    ELSE IF ok THEN [mfs |-> m \cup {cid}, threw |-> FALSE]
    ELSE [mfs |-> m, threw |-> TRUE]

\* cacheCidInMfs: files.stat, then files.cp unless the entry exists; errors
\* are logged inside
cacheCidInMfs(m, cid, ok) ==
    IF cid \in m THEN [mfs |-> m, threw |-> FALSE]
    ELSE IF ok THEN [mfs |-> m \cup {cid}, threw |-> FALSE]
    ELSE [mfs |-> m, threw |-> FALSE]

ProxyDone(outcome, c) ==
    /\ mfs' = c.mfs
    /\ lastEvent' = [lastEvent EXCEPT !.status = proxyStatus(outcome),
                                      !.kind = "answered", !.err = c.threw,
                                      !.message = <<outcome>>]
    /\ UNCHANGED <<now, nTicks, cache, memoryCache, pinned, autoSeedingInterval, cycles,
                   req, admin, nOps>>
    /\ UNCHANGED <<caVars, routerVars, proxyCache>>

\* The proxy middleware of the latest served request gets its answer from the
\* gateway (onProxyRes, with cacheCidInMfs after a 200) or fails (onError).
ProxyAnswered ==
    /\ lastEvent.status = "proxied"
    /\ \E outcome \in ProxyOutcomes, ok \in BOOLEAN :
         ProxyDone(outcome,
                   IF outcome = "200" THEN cacheCidInMfs(mfs, lastEvent.cid, ok)
                   ELSE [mfs |-> mfs, threw |-> FALSE])

AdminBegun(kind, name, cid, r) ==
    /\ cache' = r.cache
    /\ admin' = IF r.request = NoCall THEN IdleAdmin
                ELSE [pc |-> kind, name |-> name, request |-> r.request]
    /\ lastEvent' = [NoEvent EXCEPT !.kind = kind, !.name = name, !.cid = cid,
                                    !.err = r.err]
    /\ nOps' = nOps + 1
    /\ UNCHANGED <<now, nTicks, memoryCache, pinned, mfs, autoSeedingInterval, cycles, req>>
    /\ UNCHANGED <<caVars, routerVars, proxyCache>>

\* POST /api/toggle-auto-seed?enable=true, up to the await on pin.add
Enable ==
    /\ admin.pc = "idle"
    /\ nOps < MaxOps
    /\ \E name \in Names :
         AdminBegun("enable", name, getLatestCid(cache, name),
                    enableAutoSeedingBegin(cache, name, getLatestCid(cache, name)))

\* POST /api/toggle-auto-seed?enable=false, up to the await on pin.rm
Disable ==
    /\ admin.pc = "idle"
    /\ nOps < MaxOps
    /\ \E name \in Names :
         AdminBegun("disable", name, getLatestCid(cache, name),
                    disableAutoSeedingBegin(cache, name, getLatestCid(cache, name)))

AdminEnded(kind, ok, err) ==
    /\ admin' = IdleAdmin
    /\ lastEvent' = [NoEvent EXCEPT !.kind = kind, !.name = admin.name,
                                    !.cid = admin.request.cid, !.ok = ok, !.err = err]
    /\ UNCHANGED <<now, nTicks, memoryCache, mfs, autoSeedingInterval, cycles, req, nOps>>
    /\ UNCHANGED <<caVars, routerVars, proxyCache>>

EnableSettled(ok, r) ==
    /\ cache' = r.cache
    /\ AdminEnded("enabled", ok, r.err)

\* pin.add of enableAutoSeeding answers
EnablePinned ==
    /\ admin.pc = "enable"
    /\ \E ok \in BOOLEAN :
         /\ pinned' = IF ok THEN pinned \cup {admin.request.cid} ELSE pinned
         /\ EnableSettled(ok, enableAutoSeedingAfterPin(cache, admin.name, ok))

\* pin.rm of disableAutoSeeding answers
DisableUnpinned ==
    /\ admin.pc = "disable"
    /\ \E ok \in BOOLEAN :
         /\ pinned' = IF ok THEN pinned \ {admin.request.cid} ELSE pinned
         /\ AdminEnded("disabled", ok, disableAutoSeedingAfterUnpin(ok).err)
    /\ cache' = cache

\* the CIDs in the <timestamp>.txt files of a domain directory
recordedCids(c, name) == {c[name].records[t] : t \in DOMAIN c[name].records}

\* a clear that unlinks the <timestamp>.txt files only
clearRecordsOnly(c, name) ==
    IF ~c[name].dir THEN [cache |-> c, success |-> FALSE]
    ELSE [cache |-> [c EXCEPT ![name] = DirWith(<<>>, @.autoSeeding)], success |-> TRUE]

\* clearDomainCache, the file system part: every file of the domain
\* directory is unlinked and the directory removed
clearDomainCache(c, name) ==
    IF ~c[name].dir THEN [cache |-> c, success |-> FALSE]
    ELSE [cache |-> [c EXCEPT ![name] = NoDir], success |-> TRUE]

ClearCacheDone(name, r, removed) ==
    /\ cache' = r.cache
    /\ mfs' = mfs \ removed
    /\ lastEvent' = [NoEvent EXCEPT !.kind = "cleared", !.name = name, !.ok = r.success]
    /\ nOps' = nOps + 1
    /\ UNCHANGED <<now, nTicks, memoryCache, pinned, autoSeedingInterval, cycles, req, admin>>
    /\ UNCHANGED <<caVars, routerVars, proxyCache>>

\* POST /api/clear-cache: the directory is cleared, then files.rm is asked
\* for each recorded CID and may fail for any of them.
ClearCache ==
    /\ nOps < MaxOps
    /\ \E name \in DOMAIN cache :
         \E removed \in SUBSET (IF cache[name].dir THEN recordedCids(cache, name) ELSE {}) :
            ClearCacheDone(name, clearDomainCache(cache, name), removed)

----------------------------------------------------------------------------
(* The light client, the RPC route, start() and stop() of the server *)

\* HeliosClient after its constructor
NoHelios == [isStarted |-> FALSE, provider |-> FALSE, syncPromise |-> "null"]

isReady(h) == h.isStarted /\ h.provider

\* HeliosClient.start() up to its first await
heliosStart(h) ==
    IF h.isStarted \/ h.syncPromise # "null" THEN h
    ELSE [h EXCEPT !.syncPromise = "pending"]

\* ... createHeliosProvider and waitSynced have resolved
heliosSynced(h) ==
    [h EXCEPT !.provider = TRUE, !.isStarted = TRUE, !.syncPromise = "fulfilled"]

\* ... one of them has rejected
heliosSyncFailed(h) == [h EXCEPT !.syncPromise = "null"]

\* HeliosClient.stop()
heliosStop(h) ==
    IF ~h.isStarted \/ ~h.provider THEN h
    ELSE [h EXCEPT !.isStarted = FALSE, !.provider = FALSE]

\* JavaScript values of the fields of a request: numbers, strings, undefined
JsNull == "null"
Undefined == "undefined"
Falsy == {"n:0", "s:", JsNull, Undefined}
\* v || d
Or(v, d) == IF v \in Falsy THEN d ELSE v

RpcIds == {"n:1", "n:0", "s:a", Undefined}
RpcRequests == [method : {"eth_chainId", Undefined}, id : RpcIds, jsonrpc : {"2.0", Undefined}]
RpcBatches == UNION {[1..n -> RpcRequests] : n \in 0..MaxBatch}
\* what heliosClient.request() does with a forwarded call
RpcAnswers == {"result", "throws"}

ErrorResponse(code, id) == [jsonrpc |-> "2.0", kind |-> "error", code |-> code, id |-> id]
ResultResponse(jsonrpc, id) == [jsonrpc |-> jsonrpc, kind |-> "result", code |-> 0, id |-> id]

NoPost == [batch |-> FALSE, body |-> <<>>, status |-> 0, response |-> <<>>,
           forwarded |-> <<>>]
Answered(batch, body, status, response, forwarded) ==
    [batch |-> batch, body |-> body, status |-> status, response |-> response,
     forwarded |-> forwarded]

\* one request of a batch, once the client is known to be ready
batchItem(request, answer) ==
    IF request.method = Undefined THEN ErrorResponse(-32600, Or(request.id, JsNull))
    ELSE IF answer = "throws" THEN ErrorResponse(-32603, Or(request.id, JsNull))
    ELSE ResultResponse(Or(request.jsonrpc, "2.0"), Or(request.id, JsNull))

\* the requests handed to heliosClient.request(), in order
Forwarded(body) == SelectSeq(body, LAMBDA request : request.method # Undefined)

\* a batch handler that forwards without asking whether the client is ready
postBatchUnchecked(h, body, answers) ==
    Answered(TRUE, body, 200, [i \in DOMAIN body |-> batchItem(body[i], answers[i])],
             Forwarded(body))

\* app.post('/') with an array as body
postBatch(h, body, answers) ==
    IF ~isReady(h)
    THEN Answered(TRUE, body, 503,
                  [i \in DOMAIN body |-> ErrorResponse(-32000, Or(body[i].id, JsNull))],
                  <<>>)
    ELSE Answered(TRUE, body, 200,
                  [i \in DOMAIN body |-> batchItem(body[i], answers[i])],
                  Forwarded(body))

\* app.post('/') with a single request as body
postSingle(h, request, answer) ==
    IF ~isReady(h)
    THEN Answered(FALSE, <<request>>, 503,
                  <<ErrorResponse(-32000, Or(request.id, JsNull))>>, <<>>)
    ELSE IF request.method = Undefined
    THEN Answered(FALSE, <<request>>, 400,
                  <<ErrorResponse(-32600, Or(request.id, JsNull))>>, <<>>)
    ELSE Answered(FALSE, <<request>>, 200, <<batchItem(request, answer)>>, <<request>>)

\* ---- actions ----

NodeUnchanged == UNCHANGED <<routed, caVars, seedVars>>

\* start(), from listen() on: heliosClient.start().then(...)
ServerStart ==
    /\ server = "new"
    /\ server' = "running"
    /\ helios' = heliosStart(helios)
    /\ UNCHANGED rpc
    /\ NodeUnchanged

\* startAutoSeedingLoop(), called by the callback start() left on the sync
StartLoopWhenSynced(r) ==
    /\ autoSeedingInterval' = TRUE
    /\ IF autoSeedingInterval THEN UNCHANGED <<cycles, memoryCache>>
       ELSE /\ cycles' = [cycles EXCEPT ![FreeSlot] = r.slot]
            /\ memoryCache' = r.mem

\* The light client has synced: isStarted is set, then the callback of
\* start() runs ensResolver.init() and startAutoSeedingLoop().
HeliosSynced ==
    /\ helios.syncPromise = "pending"
    /\ helios' = heliosSynced(helios)
    /\ StartLoopWhenSynced(cycleAdvance(autoSeedingDomains(cache), 1, memoryCache, now))
    /\ UNCHANGED <<server, rpc, routed, caVars>>
    /\ UNCHANGED <<now, nTicks, cache, pinned, mfs, req, admin, nOps, proxyCache, lastEvent>>

\* The sync has failed: start() logs the error, the server keeps running.
HeliosSyncFailed ==
    /\ helios.syncPromise = "pending"
    /\ helios' = heliosSyncFailed(helios)
    /\ UNCHANGED <<server, rpc>>
    /\ NodeUnchanged

\* stop() up to the end of heliosClient.stop()
ServerStop ==
    /\ server = "running"
    /\ server' = "stopping"
    /\ autoSeedingInterval' = FALSE
    /\ helios' = heliosStop(helios)
    /\ UNCHANGED <<rpc, routed, caVars>>
    /\ UNCHANGED <<now, nTicks, cache, memoryCache, pinned, mfs, cycles, req, admin, nOps,
                   proxyCache, lastEvent>>

\* stop() from there to its end: cleanup(), httpsServer.close()
ServerStopped ==
    /\ server = "stopping"
    /\ server' = "stopped"
    /\ files' = [p \in DOMAIN files \ {generatedCerts[q].certPath : q \in DOMAIN generatedCerts}
                    |-> files[p]]
    /\ generatedCerts' = <<>>
    /\ UNCHANGED <<domain, rootPrivateKeyPem, setupVars, sniInstalled, serial,
                   signedByIntermediate, cacheEpoch, nHandshakes, lastHandshake, served,
                   failedPatterns>>
    /\ UNCHANGED <<routed, helios, rpc, seedVars>>

\* restart(newOptions) with the same RPC endpoints: stop() has completed, the
\* apps are recreated and start() runs again with the same HeliosClient.
\* When heliosClient.start() returns a promise that is already fulfilled, the
\* callback of start() runs at once.
ServerRestart ==
    /\ server = "stopped"
    /\ server' = "running"
    /\ helios' = heliosStart(helios)
    /\ IF helios.isStarted \/ helios.syncPromise = "fulfilled"
       THEN StartLoopWhenSynced(cycleAdvance(autoSeedingDomains(cache), 1, memoryCache, now))
       ELSE UNCHANGED <<autoSeedingInterval, cycles, memoryCache>>
    /\ UNCHANGED <<rpc, routed, caVars>>
    /\ UNCHANGED <<now, nTicks, cache, pinned, mfs, req, admin, nOps, proxyCache, lastEvent>>

RpcPosted(r) ==
    /\ rpc' = r
    /\ UNCHANGED <<helios, server>>
    /\ NodeUnchanged

\* POST / on the RPC route with a batch (the model follows one POST at a time)
PostBatch ==
    /\ server \in {"running", "stopping"}
    /\ rpc = NoPost
    /\ \E body \in RpcBatches :
         \E answers \in [DOMAIN body -> RpcAnswers] :
            RpcPosted(postBatch(helios, body, answers))

\* POST / on the RPC route with a single request
PostSingle ==
    /\ server \in {"running", "stopping"}
    /\ rpc = NoPost
    /\ \E request \in RpcRequests, answer \in RpcAnswers :
         RpcPosted(postSingle(helios, request, answer))

\* The answer has been sent.
RpcResponded ==
    /\ rpc # NoPost
    /\ rpc' = NoPost
    /\ UNCHANGED <<helios, server>>
    /\ NodeUnchanged

----------------------------------------------------------------------------
(* Specifications *)

CAIdle ==
    /\ files = <<>>
    /\ rootPrivateKeyPem = Null
    /\ setup = "new"
    /\ httpsOptions = NoOptions
    /\ signedByRoot = {}
    /\ nLateCalls = 0
    /\ generatedCerts = <<>>
    /\ sniInstalled = FALSE
    /\ serial = 0
    /\ signedByIntermediate = {}
    /\ cacheEpoch = 0
    /\ nHandshakes = 0
    /\ lastHandshake = NoHandshake
    /\ served = {}
    /\ failedPatterns = {}

RouterIdle ==
    /\ routed = NoRequest
    /\ helios = NoHelios
    /\ server = "new"
    /\ rpc = NoPost

SeedIdle ==
    /\ now = 0
    /\ nTicks = 0
    /\ cache = [n \in Names |-> NoDir]
    /\ memoryCache = <<>>
    /\ pinned = {}
    /\ mfs = {}
    /\ autoSeedingInterval = FALSE
    /\ cycles = [i \in 1..MaxCycles |-> IdleCycle]
    /\ req = IdleRequest
    /\ admin = IdleAdmin
    /\ nOps = 0
    /\ proxyCache = {}
    /\ lastEvent = NoEvent

InitCA ==
    /\ domain \in Domains
    /\ files \in {<<>>, SetupFiles}
    /\ rootPrivateKeyPem = Null
    /\ setup = "new"
    /\ httpsOptions = NoOptions
    /\ signedByRoot = {}
    /\ nLateCalls = 0
    /\ generatedCerts = <<>>
    /\ sniInstalled = FALSE
    /\ serial = Cardinality(DOMAIN SetupFiles)
    /\ signedByIntermediate = {}
    /\ cacheEpoch = 0
    /\ nHandshakes = 0
    /\ lastHandshake = NoHandshake
    /\ served = {}
    /\ failedPatterns = {}
    /\ RouterIdle
    /\ SeedIdle

NextCA ==
    \/ Initialize
    \/ CreateRootCA \/ CreateIntermediateCA
    \/ GenerateEthCertificate \/ GenerateNodeCertificate
    \/ GenerateEthCertificateAgain
    \/ Handshake \/ Cleanup

SpecCA == InitCA /\ [][NextCA]_vars

\* initialize() over a certificate directory that holds any part of the set,
\* run after run.
InitSetup ==
    /\ domain \in Domains
    /\ \E present \in SUBSET DOMAIN SetupFiles : files = [p \in present |-> SetupFiles[p]]
    /\ rootPrivateKeyPem = Null
    /\ setup = "new"
    /\ httpsOptions = NoOptions
    /\ signedByRoot = {}
    /\ nLateCalls = 0
    /\ generatedCerts = <<>>
    /\ sniInstalled = FALSE
    /\ serial = Cardinality(DOMAIN SetupFiles)
    /\ signedByIntermediate = {}
    /\ cacheEpoch = 0
    /\ nHandshakes = 0
    /\ lastHandshake = NoHandshake
    /\ served = {}
    /\ failedPatterns = {}
    /\ RouterIdle
    /\ SeedIdle

NextSetup ==
    \/ Initialize
    \/ CreateRootCA \/ CreateIntermediateCA
    \/ GenerateEthCertificate \/ GenerateNodeCertificate
    \/ Restart

SpecSetup == InitSetup /\ [][NextSetup]_vars

InitRouter ==
    /\ domain \in Domains
    /\ CAIdle
    /\ RouterIdle
    /\ SeedIdle

NextRouter == Route \/ Respond

SpecRouter == InitRouter /\ [][NextRouter]_vars

\* The server from start() to stop(), with requests on the RPC route.
InitNode == InitRouter

NextNode ==
    \/ ServerStart \/ HeliosSynced \/ HeliosSyncFailed
    \/ ServerStop \/ ServerStopped \/ ServerRestart
    \/ PostBatch \/ PostSingle \/ RpcResponded

SpecNode == InitNode /\ [][NextNode]_vars

\* What earlier runs may have left in the cache directory and the content
\* store: nothing, a resolution, or a resolution that is auto-seeded.
InitialDirs(cid) ==
    {NoDir, DirWith(Put(<<>>, 0, cid), FALSE), DirWith(Put(<<>>, 0, cid), TRUE)}

InitSeeding ==
    /\ domain = <<"localhost">>
    /\ CAIdle
    /\ RouterIdle
    /\ now = 1
    /\ nTicks = 0
    /\ cache \in [Names -> InitialDirs(CidA)]
    /\ memoryCache = <<>>
    /\ pinned = {getLatestCid(cache, n) : n \in {m \in Names : cache[m].autoSeeding}}
    /\ mfs = {}
    /\ autoSeedingInterval = FALSE
    /\ cycles = [i \in 1..MaxCycles |-> IdleCycle]
    /\ req = IdleRequest
    /\ admin = IdleAdmin
    /\ nOps = 0
    /\ proxyCache = {}
    /\ lastEvent = NoEvent

NextSeeding ==
    \/ Tick
    \/ StartLoop \/ TimerTick \/ StopLoop
    \/ CycleResolved \/ CycleCopied \/ CyclePinned
    \/ Request \/ RequestResolved
    \/ Enable \/ EnablePinned \/ Disable \/ DisableUnpinned

SpecSeeding == InitSeeding /\ [][NextSeeding]_vars

\* The reconciler alone, over two cached names and within the life of a
\* memory cache entry (the clock stands still).
InitCycles ==
    /\ domain = <<"localhost">>
    /\ CAIdle
    /\ RouterIdle
    /\ now = 1
    /\ nTicks = 0
    /\ cache \in [{NameOrder[i] : i \in DOMAIN NameOrder} -> InitialDirs(CidA)]
    /\ memoryCache = <<>>
    /\ pinned = {getLatestCid(cache, n) : n \in {m \in DOMAIN cache : cache[m].autoSeeding}}
    /\ mfs = {}
    /\ autoSeedingInterval = FALSE
    /\ cycles = [i \in 1..MaxCycles |-> IdleCycle]
    /\ req = IdleRequest
    /\ admin = IdleAdmin
    /\ nOps = 0
    /\ proxyCache = {}
    /\ lastEvent = NoEvent

NextCycles ==
    \/ StartLoop \/ TimerTick \/ StopLoop
    \/ CycleResolved \/ CycleCopied \/ CyclePinned

SpecCycles == InitCycles /\ [][NextCycles]_vars

\* The reconciler over two cached names, started, started again and stopped.
NextTimer == NextCycles \/ StartLoopAgain

SpecTimer == InitCycles /\ [][NextTimer]_vars

\* The reconciler over two names whose cached identifiers were written in
\* base58btc, while the resolver answers in base32.
InitEncodings ==
    /\ domain = <<"localhost">>
    /\ CAIdle
    /\ RouterIdle
    /\ now = 1
    /\ nTicks = 0
    /\ cache \in [{NameOrder[i] : i \in DOMAIN NameOrder} -> InitialDirs(CidAz)]
    /\ memoryCache = <<>>
    /\ pinned = {getLatestCid(cache, n) : n \in {m \in DOMAIN cache : cache[m].autoSeeding}}
    /\ mfs = {}
    /\ autoSeedingInterval = FALSE
    /\ cycles = [i \in 1..MaxCycles |-> IdleCycle]
    /\ req = IdleRequest
    /\ admin = IdleAdmin
    /\ nOps = 0
    /\ proxyCache = {}
    /\ lastEvent = NoEvent

SpecEncodings == InitEncodings /\ [][NextCycles]_vars

\* The reconciler over two cached names, with the cache of a name cleared
\* now and then through the admin API.
NextClear == NextCycles \/ ClearCache

SpecClear == InitCycles /\ [][NextClear]_vars

\* Content requests alone, with a collaborator that may answer, fail or stay
\* silent.  An answer that is on its way arrives, and time passes.
NextResolve == Tick \/ Request \/ RequestResolved \/ RequestStalls

SpecResolve ==
    /\ InitSeeding
    /\ [][NextResolve]_vars
    /\ WF_vars(Tick)
    /\ WF_vars(RequestResolved)

\* Content requests one at a time, from the Host header to the answer of the
\* proxy stage, with a resolver and a gateway that answer or fail (a resolver
\* that stays silent is SpecResolve).
RequestInTurn == Request /\ lastEvent.status # "proxied"
TickInTurn == Tick /\ lastEvent.status # "proxied"

NextRespond == TickInTurn \/ RequestInTurn \/ RequestResolved \/ ProxyAnswered

SpecRespond ==
    /\ InitSeeding
    /\ [][NextRespond]_vars
    /\ WF_vars(RequestResolved)
    /\ WF_vars(ProxyAnswered)

----------------------------------------------------------------------------
(* Properties *)

\* ---- properties of the certificate authority ----

\* C1: between two cache clean-ups at most one certificate is signed per
\* pattern, and every handshake whose hostname maps to the same pattern is
\* handed the identical chain.
C1_OneGenerationPerPattern ==
    /\ \A a, b \in signedByIntermediate :
          (a.cert.subject = b.cert.subject /\ a.epoch = b.epoch) => a = b
    /\ \A a, b \in served :
          (a.pattern = b.pattern /\ a.epoch = b.epoch) => a.chain = b.chain

\* C2: every certificate signed with the intermediate key carries only names
\* inside the intermediate's name constraint.
C2_SignsOnlyWithinConstraint ==
    \A s \in signedByIntermediate :
        /\ WithinConstraint(s.cert.subject)
        /\ \A n \in s.cert.san : WithinConstraint(n)

\* C13: once first-time setup has finished the root private key is gone from
\* the instance and no signing with the root key succeeds any more.
C13_RootKeyDiscardedAfterSetup ==
    setup = "ready" =>
        /\ rootPrivateKeyPem = Null
        /\ \A s \in signedByRoot : ~s.late

\* C14: whenever a setup operation has returned or thrown, no file of the
\* certificate directory holds the root private key.
C14_RootKeyNeverOnDisk ==
    \A p \in DOMAIN files : files[p] # KeyFile("root")

\* The step is a handshake in which lazy generation failed.
GenerationFailedStep ==
    /\ lastHandshake'.seq = nHandshakes + 1
    /\ lastHandshake'.seq # lastHandshake.seq
    /\ lastHandshake'.err = "generate"

NotTemporary(fs) == {p \in DOMAIN fs : fs[p].kind # "tmp"}

\* C9: a handshake whose lazy generation fails calls the handshake callback
\* exactly once, with the error and without a context; it stores no cache
\* entry, signs nothing, leaves every key and certificate file as it was and
\* leaves the SNI callback installed, so later handshakes find the state
\* they would have found without it.
C9_GenerationFailureFailsOneHandshake ==
    [][GenerationFailedStep =>
          /\ lastHandshake'.calls = 1
          /\ lastHandshake'.ctx = NoContext
          /\ generatedCerts' = generatedCerts
          /\ signedByIntermediate' = signedByIntermediate
          /\ serial' = serial
          /\ sniInstalled'
          /\ NotTemporary(files') = NotTemporary(files)
          /\ \A p \in NotTemporary(files) : files'[p] = files[p]]_vars

\* C9 witness: a pattern whose generation failed in an earlier handshake is
\* served a freshly generated chain in the latest one.
C9_Witness ==
    /\ lastHandshake.err = NotThrown
    /\ lastHandshake.ctx.kind = "context"
    /\ lastHandshake.pattern \in failedPatterns
    /\ lastHandshake.calls = 1

\* Dispatch by suffix match on the Host, for the base domain `base`.
SuffixDispatch(host, base) ==
    IF EndsWith(host, <<"ethereum", Dot, "node", Dot>> \o base) THEN "rpc"
    ELSE IF host = <<"node", Dot>> \o base \/ EndsWith(host, <<Dot, "node", Dot>> \o base)
    THEN "cache"
    ELSE IF EndsWith(host, <<Dot, "eth", Dot>> \o base)
            /\ Len(host) > Len(<<Dot, "eth", Dot>> \o base)
    THEN "content"
    ELSE "404"

\* C10: every request goes to the sub-handler that suffix matching on its
\* Host selects: RPC for ethereum.node.<base>, cache administration for
\* node.<base> and its subdomains, the content proxy for any other
\* *.eth.<base>, and a 404 answer for everything else.
C10_DispatchBySuffix ==
    routed # NoRequest => routed.handler = SuffixDispatch(routed.host, domain)

\* The host a Host header names: the port suffix stripped, in lower case.
RECURSIVE StripPort(_)
StripPort(h) ==
    IF h = <<>> \/ Head(h) = Colon THEN <<>> ELSE <<Head(h)>> \o StripPort(Tail(h))

toLowerCase(s) ==
    [i \in 1..Len(s) |->
        IF \E t \in DOMAIN UpperOf : UpperOf[t] = s[i]
        THEN CHOOSE t \in DOMAIN UpperOf : UpperOf[t] = s[i]
        ELSE s[i]]

HostOf(header) == toLowerCase(StripPort(header))

\* C11: dispatch and ENS-name extraction are case-insensitive and ignore a
\* port suffix: a request is dispatched to the sub-handler, and yields the
\* ENS name, that the lower-case, port-less spelling of its Host header is
\* dispatched to and yields.
C11_HostCaseAndPortIgnored ==
    routed # NoRequest =>
        /\ routed.handler = combinedApp(HostOf(routed.host), domain)
        /\ routed.ensDomain =
              ensDomainOf(combinedApp(HostOf(routed.host), domain),
                          HostOf(routed.host), domain)

\* ---- properties of resolution, cache administration and auto-seeding ----

\* The step belongs to a reconciliation cycle.
CycleStep == lastEvent'.slot # 0

C4_AtMostOneCycleInFlight == Cardinality(InFlight) <= 1

\* C5: when the resolution collaborator fails, resolveENS returns the latest
\* durable identifier of the name, if there is one, and stores it in the
\* memory cache with a fresh expiry; if there is none it throws and leaves
\* the name's memory cache entry as it was.
C5_ResolveFallsBackToDurableCache ==
    [][(lastEvent'.kind = "resolved" /\ ~lastEvent'.ok)
       => IF getLatestCid(cache, lastEvent'.name) # Null
          THEN /\ ~lastEvent'.err
               /\ lastEvent'.cid = getLatestCid(cache, lastEvent'.name)
               /\ lastEvent'.name \in DOMAIN memoryCache'
               /\ memoryCache'[lastEvent'.name] =
                     [cid |-> getLatestCid(cache, lastEvent'.name),
                      expiresAt |-> now + cacheTtl]
          ELSE /\ lastEvent'.err
               /\ (lastEvent'.name \in DOMAIN memoryCache')
                     = (lastEvent'.name \in DOMAIN memoryCache)
               /\ lastEvent'.name \in DOMAIN memoryCache
                     => memoryCache'[lastEvent'.name] = memoryCache[lastEvent'.name]]_vars

\* C5 witness: the collaborator failed and the request was served the latest
\* durable identifier, now also in the memory cache.
C5_Witness ==
    /\ lastEvent.kind = "resolved"
    /\ lastEvent.slot = 0
    /\ ~lastEvent.ok
    /\ ~lastEvent.err
    /\ lastEvent.cid = getLatestCid(cache, lastEvent.name)
    /\ lastEvent.cid # Null
    /\ lastEvent.name \in DOMAIN memoryCache
    /\ memoryCache[lastEvent.name].cid = lastEvent.cid

\* C12: every resolveENS call that has started waiting for the collaborator
\* ends, with an identifier or a failure, whatever the collaborator does.
C12_ResolveTerminates == (req.pc # "idle") ~> (req.pc = "idle")

\* C6: saveCidIfChanged with the identifier that is already the latest
\* durable record writes nothing: the cache directory is left as it was.
C6_SaveIsIdempotent ==
    [][(lastEvent'.saved /\ getLatestCid(cache, lastEvent'.name) = lastEvent'.cid)
       => (cache' = cache /\ ~lastEvent'.wrote)]_vars

\* C6 witness: a name was resolved and saved, then, later, resolved to the
\* same identifier again: the second save wrote nothing.
C6_Witness ==
    /\ lastEvent.kind = "resolved"
    /\ lastEvent.ok
    /\ lastEvent.saved
    /\ ~lastEvent.wrote
    /\ Cardinality(DOMAIN cache[lastEvent.name].records) = 1
    /\ \E t \in DOMAIN cache[lastEvent.name].records :
         /\ 0 < t /\ t < now
         /\ cache[lastEvent.name].records[t] = lastEvent.cid

C8_DisableRemovesFlagKeepsRecords ==
    [][/\ lastEvent'.kind = "disable"
          => /\ ~lastEvent'.err
             /\ ~cache'[lastEvent'.name].autoSeeding
             /\ \A n \in Names : cache'[n].records = cache[n].records
             /\ admin'.request =
                   IF getLatestCid(cache, lastEvent'.name) = Null THEN NoCall
                   ELSE unpinRequest(getLatestCid(cache, lastEvent'.name))
       /\ lastEvent'.kind = "disabled"
          => /\ ~lastEvent'.err
             /\ cache' = cache
             /\ ~cache'[lastEvent'.name].autoSeeding
             /\ admin.request = unpinRequest(lastEvent'.cid)]_vars

\* C8 witness: the unpin of a disable request has failed; the operation has
\* succeeded, the flag is gone, the identifier is still pinned and on record.
C8_Witness ==
    /\ lastEvent.kind = "disabled"
    /\ ~lastEvent.ok
    /\ ~lastEvent.err
    /\ ~cache[lastEvent.name].autoSeeding
    /\ getLatestCid(cache, lastEvent.name) = lastEvent.cid
    /\ lastEvent.cid \in pinned

\* ---- the SNI resolver, case by case ----

\* The server name is node.<base> or ends in .node.<base>.
IsNodeName(servername, dom) ==
    \/ servername = <<"node", Dot>> \o dom
    \/ EndsWith(servername, <<Dot, "node", Dot>> \o dom)

\* The step is one handshake (one run of the SNI callback).
HandshakeStep == lastHandshake'.seq = nHandshakes + 1 /\ nHandshakes' = nHandshakes + 1

\* The step signed nothing and left cache and certificate directory alone.
NoIssuance ==
    /\ signedByIntermediate' = signedByIntermediate
    /\ serial' = serial
    /\ generatedCerts' = generatedCerts
    /\ files' = files

\* C15: for a server name node.<base> or *.node.<base> the SNI callback hands
\* out, unless creating the context throws, the shared key with the chain
\* admin leaf, root certificate (two certificates, no intermediate), and it
\* issues nothing.
C15_NodeNameGetsAdminLeafAndRoot ==
    [][(HandshakeStep /\ IsNodeName(lastHandshake'.servername, domain))
       => /\ NoIssuance
          /\ lastHandshake'.pattern = Null
          /\ lastHandshake'.calls = 1
          /\ \/ lastHandshake'.err = "context" /\ lastHandshake'.ctx = NoContext
             \/ /\ lastHandshake'.err = NotThrown
                /\ lastHandshake'.ctx =
                      SecureContext(files[serverKeyPath],
                                    <<files[nodeCertPath], files[rootCertPath]>>)
                /\ files[nodeCertPath] = NodeCert
                /\ files[rootCertPath] = RootCert
                /\ files[serverKeyPath] = KeyFile("server")]_vars

\* C15 witness: handshakes for admin.node.<base> and for node.<base> itself
\* have been answered with the two-certificate chain.
C15_Witness ==
    /\ IsNodeName(lastHandshake.servername, domain)
    /\ lastHandshake.ctx.kind = "context"
    /\ lastHandshake.ctx.chain = <<NodeCert, RootCert>>
    /\ lastHandshake.seq > 1

\* The pattern a server name stands for, label by label: with n >= 1 labels in
\* front of eth.<base>, the default scope when n = 1 and otherwise the wildcard
\* of the label next to eth; no pattern for every other name.
DefaultScope(dom) == <<Star, Dot, "eth", Dot>> \o dom
PatternOf(servername, dom) ==
    LET labels == Split(servername)
        base == <<<<"eth">>>> \o Split(dom)
        n == Len(labels) - Len(base)
    IN  IF n >= 1 /\ SubSeq(labels, n + 1, Len(labels)) = base
        THEN IF n = 1 THEN DefaultScope(dom)
             ELSE <<Star, Dot>> \o labels[n] \o <<Dot, "eth", Dot>> \o dom
        ELSE Null

\* The server name is empty, stands for no pattern or stands for the default
\* scope (names of the admin host are answered before any pattern is derived).
UsesDefaultChain(servername, dom) ==
    /\ ~IsNodeName(servername, dom)
    /\ \/ servername = <<>>
       \/ PatternOf(servername, dom) = Null
       \/ PatternOf(servername, dom) = DefaultScope(dom)

\* C16: for an empty server name, one that stands for no pattern and one whose
\* pattern is the default scope *.eth.<base>, the SNI callback calls back once
\* without error and without context, so the server's default chain (default
\* leaf, root certificate) is used; nothing is issued and the cache of leaf
\* certificates is unchanged.
C16_DefaultChainWithoutIssuance ==
    [][(HandshakeStep /\ UsesDefaultChain(lastHandshake'.servername, domain))
       => /\ NoIssuance
          /\ lastHandshake'.calls = 1
          /\ lastHandshake'.err = NotThrown
          /\ lastHandshake'.ctx = DefaultContext
          /\ httpsOptions' = httpsOptions
          /\ httpsOptions = [key |-> KeyFile("server"), cert |-> <<EthCert, RootCert>>]]_vars

\* C16 witness: with a leaf in the cache, a handshake for vitalik.eth.<base>
\* has been told to use the default chain.
C16_Witness ==
    /\ lastHandshake.servername = Str(<<"vitalik", "eth">>) \o <<Dot>> \o domain
    /\ lastHandshake.ctx = DefaultContext
    /\ generatedCerts # <<>>
    /\ httpsOptions.cert = <<EthCert, RootCert>>

\* C17: a handshake whose server name stands for a pattern other than the
\* default scope is handed a chain of exactly three certificates: the leaf
\* issued for that pattern, then the intermediate, then the root certificate.
C17_LeafIntermediateRootInOrder ==
    (lastHandshake.ctx.kind = "context" /\ lastHandshake.pattern # Null)
    => /\ Len(lastHandshake.ctx.chain) = 3
       /\ lastHandshake.ctx.chain[1].kind = "cert"
       /\ lastHandshake.ctx.chain[1].issuer = "intermediate"
       /\ lastHandshake.ctx.chain[1].subject = lastHandshake.pattern
       /\ lastHandshake.ctx.chain[2] = IntermediateCert
       /\ lastHandshake.ctx.chain[3] = RootCert

\* C18: the pattern derived in a handshake depends on the server name and the
\* base domain only: whatever the cache, the certificate directory and the
\* handshakes before it, the name yields the pattern its labels stand for
\* (name.eth.X gives *.eth.X, blog.app.eth.X and a.blog.app.eth.X give
\* *.app.eth.X, every other name gives none).
C18_PatternIsFunctionOfNameAndBase ==
    (/\ lastHandshake.seq > 0
     /\ lastHandshake.servername # <<>>
     /\ ~IsNodeName(lastHandshake.servername, domain))
    => lastHandshake.pattern = PatternOf(lastHandshake.servername, domain)

\* C18 witness: after a clean-up and with another pattern's leaf in the cache,
\* a.blog.wildcard.eth.<base> has been mapped to *.wildcard.eth.<base>.
C18_Witness ==
    /\ lastHandshake.servername = Str(<<"a", "blog", "wildcard", "eth">>) \o <<Dot>> \o domain
    /\ lastHandshake.pattern = Str(<<Star, "wildcard", "eth">>) \o <<Dot>> \o domain
    /\ cacheEpoch = 1
    /\ Str(<<Star, Star, "eth">>) \o <<Dot>> \o domain \in DOMAIN generatedCerts

\* ---- the content proxy when resolution fails ----

\* The resolver's errors that mean "this name has no content".
NotFoundErrors ==
    {NoResolverFound(n) : n \in Names} \cup {NoContentHashFound(n) : n \in Names}

\* The step settles the resolution of a content request.
ResolutionSettles == req.pc = "resolving" /\ req'.pc = "idle"

\* C19: when the resolution of a content request fails and the name has no
\* durable record, the request is answered with an error page: status 404
\* when the resolver's error is "no resolver found" or "no content hash",
\* status 500 for every other error; no proxy is constructed and the durable
\* cache is left as it was.  No request fails in any other case.
C19_FailedResolutionAnswered404Or500 ==
    [][ResolutionSettles
       => /\ lastEvent'.err <=> (~lastEvent'.ok /\ getLatestCid(cache, req.name) = Null)
          /\ lastEvent'.err
             => /\ \E e \in ResolverErrors :
                      /\ lastEvent'.message = resolveError(req.name, e)
                      /\ lastEvent'.status = IF e \in NotFoundErrors THEN "404" ELSE "500"
                /\ proxyCache' = proxyCache
                /\ cache' = cache
          /\ ~lastEvent'.err
             => /\ lastEvent'.status = "proxied"
                /\ lastEvent'.cid \in proxyCache']_vars

\* C19 witness: a request for a name without durable record has been answered
\* 404 because the name has no content hash.
C19_Witness ==
    /\ lastEvent.kind = "resolved"
    /\ lastEvent.err
    /\ lastEvent.status = "404"
    /\ lastEvent.message = resolveError(lastEvent.name, NoContentHashFound(lastEvent.name))
    /\ getLatestCid(cache, lastEvent.name) = Null
    /\ proxyCache = {}

\* ---- certificate generations a handshake triggers ----

\* The number of certificates the step signed with the intermediate key.
Generations == Cardinality(signedByIntermediate') - Cardinality(signedByIntermediate)

\* C20 (as stated): the first handshake ever, for a name something.eth.<base>,
\* triggers exactly one certificate generation.
C20_FirstRequestTriggersOneGeneration ==
    [][(/\ HandshakeStep
        /\ nHandshakes = 0
        /\ PatternOf(lastHandshake'.servername, domain) = DefaultScope(domain))
       => Generations = 1]_vars

\* C20 (amended): a handshake for a name something.eth.<base> triggers no
\* generation, it is told to use the default chain.  A handshake for a name
\* with more labels triggers no generation when its pattern has a leaf in the
\* cache; otherwise it triggers exactly one and the leaf is in the cache
\* afterwards, unless an openssl command fails: then nothing is signed and
\* nothing is stored.
C20_GenerationOnlyForUncachedSubPatterns ==
    [][HandshakeStep
       => LET p == PatternOf(lastHandshake'.servername, domain)
          IN  /\ p = DefaultScope(domain)
                 => /\ Generations = 0
                    /\ lastHandshake'.ctx = DefaultContext
              /\ (p # Null /\ p # DefaultScope(domain))
                 => IF p \in DOMAIN generatedCerts
                    THEN Generations = 0
                    ELSE IF lastHandshake'.err = "generate"
                    THEN Generations = 0 /\ p \notin DOMAIN generatedCerts'
                    ELSE Generations = 1 /\ p \in DOMAIN generatedCerts']_vars

\* C20 witness: the first handshake ever was for vitalik.eth.<base>; it was
\* told to use the default chain and nothing has been signed.
C20_Witness ==
    /\ lastHandshake.seq = 1
    /\ lastHandshake.servername = Str(<<"vitalik", "eth">>) \o <<Dot>> \o domain
    /\ lastHandshake.ctx = DefaultContext
    /\ signedByIntermediate = {}
    /\ generatedCerts = <<>>

\* ---- the reconciler when a domain fails ----

\* The memory cache answers for the listed domain d with the identifier on
\* record: its check ends without waiting and without an update.
UpToDateInMemory(d, mem, t) ==
    /\ d.domain \in DOMAIN mem
    /\ mem[d.domain].expiresAt > t
    /\ CidEquals(d.cid, mem[d.domain].cid)

\* The step is an error in the check or update of a domain of cycle i.
DomainFails(i) ==
    /\ cycles[i].pc # "idle"
    /\ lastEvent'.slot = i
    /\ lastEvent'.kind \in {"resolved", "copied", "pinned"}
    /\ lastEvent'.err

\* C21: an error while a cycle checks or updates one domain (the resolution,
\* the copy or the pin fails) does not end the cycle: the cycle goes on with
\* the next listed domain that the memory cache does not settle at once, and
\* is over only when there is none; the timer and the other cycles in flight
\* are untouched.
C21_DomainErrorDoesNotAbortCycle ==
    [][\A i \in DOMAIN cycles :
          DomainFails(i)
          => LET list == cycles[i].list
                 rest == {j \in (cycles[i].idx + 1)..Len(list) :
                             ~UpToDateInMemory(list[j], memoryCache, now)}
             IN  /\ IF rest = {} THEN cycles'[i] = IdleCycle
                    ELSE /\ cycles'[i].list = list
                         /\ cycles'[i].idx = CHOOSE j \in rest : \A k \in rest : j <= k
                         /\ cycles'[i].pc \in {"resolve", "cp"}
                 /\ autoSeedingInterval' = autoSeedingInterval
                 /\ \A j \in DOMAIN cycles \ {i} : cycles'[j] = cycles[j]]_vars

\* C21 witness: the copy for a.eth has failed and the same cycle is resolving
\* b.eth, with the timer still set.
C21_Witness ==
    /\ lastEvent.kind = "copied"
    /\ lastEvent.err
    /\ lastEvent.name = "a.eth"
    /\ cycles[lastEvent.slot].pc = "resolve"
    /\ cycles[lastEvent.slot].idx = 2
    /\ cycles[lastEvent.slot].list[2].domain = "b.eth"
    /\ autoSeedingInterval

\* ---- initialize(), run again ----

\* The on-disk set initialize() looks for: intermediate certificate and key
\* and both well-known leaf certificates.
SetComplete ==
    {intermediateCertPath, intermediateKeyPath, ethCertPath, nodeCertPath}
        \subseteq DOMAIN files

\* C22: initialize() over a complete on-disk set writes and signs nothing and
\* leaves the instance without root key; first-time setup is entered only by
\* an initialize() that finds the set incomplete, and every such call enters
\* it.
C22_InitializeIdempotent ==
    [][/\ (setup = "new" /\ setup' # "new")
          => IF SetComplete
             THEN /\ files' = files
                  /\ signedByRoot' = signedByRoot
                  /\ rootPrivateKeyPem' = Null
                  /\ setup' \in {"ready", "failed"}
             ELSE setup' = "createRootCA" /\ files' = files
       /\ (setup' = "createRootCA") => (setup = "new" /\ ~SetComplete)
       /\ (files' # files \/ signedByRoot' # signedByRoot)
          => setup \in {"createRootCA", "createIntermediateCA",
                        "generateEthCertificate", "generateNodeCertificate"}]_vars

\* C22 witness: first-time setup ran in an earlier run; this run's
\* initialize() found the set complete and the server was created from the
\* unchanged files.
C22_Witness ==
    /\ setup = "ready"
    /\ signedByRoot # {}
    /\ rootPrivateKeyPem = Null
    /\ files = SetupFiles

\* ---- cleanup() ----

\* C23: cleanup() removes from the certificate directory exactly the
\* certificate files of the patterns in the cache and changes no other file;
\* the shared server key, the well-known leaves, the root certificate and the
\* intermediate certificate and key stay; the cache is empty afterwards.
C23_CleanupRemovesOnlyGeneratedLeaves ==
    [][(cacheEpoch' = cacheEpoch + 1)
       => /\ DOMAIN files \ DOMAIN files' =
                {certPathOf(q) : q \in DOMAIN generatedCerts} \cap DOMAIN files
          /\ DOMAIN files' \subseteq DOMAIN files
          /\ \A p \in DOMAIN files' : files'[p] = files[p]
          /\ \A p \in DOMAIN SetupFiles : p \in DOMAIN files => p \in DOMAIN files'
          /\ generatedCerts' = <<>>]_vars

\* C23 witness: a clean-up has removed the certificate of a generated leaf;
\* the cache is empty and the six files of the setup are all there.
C23_Witness ==
    /\ cacheEpoch = 1
    /\ generatedCerts = <<>>
    /\ \E g \in signedByIntermediate :
          g.epoch = 0 /\ certPathOf(g.cert.subject) \notin DOMAIN files
    /\ DOMAIN SetupFiles \subseteq DOMAIN files
    /\ files[serverKeyPath] = KeyFile("server")


\* A POST on the RPC route is answered in this step.
PostStep == rpc = NoPost /\ rpc' # NoPost

AllErrors(response, code) ==
    \A i \in DOMAIN response : response[i].kind = "error" /\ response[i].code = code

\* C24: while the light client is not ready (not started, syncing or
\* stopped), every POST on the RPC route, single or batch, is answered with
\* status 503 and one error of code -32000 per request, and no request is
\* forwarded to the light client.
C24_NotReadyAnswered503 ==
    [][(PostStep /\ ~isReady(helios)) =>
          /\ rpc'.status = 503
          /\ Len(rpc'.response) = Len(rpc'.body)
          /\ AllErrors(rpc'.response, -32000)
          /\ rpc'.forwarded = <<>>]_vars

\* a batch of two requests with methods has been answered while syncing
C24_Witness ==
    /\ rpc.batch /\ Len(rpc.body) = MaxBatch
    /\ \A i \in DOMAIN rpc.body : rpc.body[i].method # Undefined
    /\ helios.syncPromise = "pending" /\ ~isReady(helios)
    /\ rpc.status = 503

\* a JSON-RPC 2.0 request carrying a method and an id
ValidRequest(request) ==
    request.jsonrpc = "2.0" /\ request.method # Undefined /\ request.id # Undefined

\* C25: a batch of n valid requests sent to a ready RPC route is answered
\* with exactly n responses in request order, each carrying jsonrpc "2.0" and
\* the id of its request, for every valid id value.
C25_BatchAnsweredInOrderWithIds ==
    [][(PostStep /\ isReady(helios) /\ rpc'.batch
          /\ \A i \in DOMAIN rpc'.body : ValidRequest(rpc'.body[i])) =>
          /\ Len(rpc'.response) = Len(rpc'.body)
          /\ \A i \in DOMAIN rpc'.body :
                /\ rpc'.response[i].jsonrpc = "2.0"
                /\ rpc'.response[i].id = rpc'.body[i].id]_vars

\* C28: after stop() has completed no reconciliation timer is active, also
\* when the sync launched by start() completes only after stop().
C28_NoTimerAfterStop == server = "stopped" => ~autoSeedingInterval

\* POST /api/clear-cache has been handled in this step.
ClearStep == nOps' = nOps + 1 /\ lastEvent'.kind = "cleared"

CachedNames(c) == {getAllCachedDomains(c)[i].domain : i \in DOMAIN getAllCachedDomains(c)}

C27_AutoSeededLatestIsPinned ==
    \A n \in DOMAIN cache :
        isAutoSeedingEnabled(cache, n) => getLatestCid(cache, n) \in pinned

\* C29: no step of a resolution or a save deletes or overwrites a durable
\* record, and a step that changes the records of a name adds exactly one
\* record whose version is greater than every version the name had.
C29_SavesOnlyAppendNewerVersions ==
    [][\A n \in DOMAIN cache :
          LET old == cache[n].records
              new == cache'[n].records
          IN  /\ \A t \in DOMAIN old : t \in DOMAIN new /\ new[t] = old[t]
              /\ new # old =>
                   \E t \in DOMAIN new \ DOMAIN old :
                      /\ DOMAIN new = DOMAIN old \cup {t}
                      /\ \A u \in DOMAIN old : u < t]_vars

\* A content request calls resolveENS in this step.
ResolveBegins ==
    /\ req.pc = "idle"
    /\ nOps' = nOps + 1
    /\ lastEvent'.kind \in {"hit", "request"}

\* The collaborator answers the request's resolveENS with an identifier.
ResolveSucceeds ==
    /\ req.pc = "resolving"
    /\ req'.pc = "idle"
    /\ lastEvent'.kind = "resolved"
    /\ lastEvent'.ok

\* C30: resolveENS(name) returns the in-memory entry without calling the
\* collaborator exactly when an entry for name exists and has not expired; an
\* expired entry is dropped and the collaborator is called; a successful
\* collaborator call stores its result in memory, expiring one TTL from now.
C30_MemoryEntryUsedUntilExpiry ==
    [][/\ ResolveBegins =>
            LET name == lastEvent'.name
            IN  IF name \in DOMAIN memoryCache /\ memoryCache[name].expiresAt > now
                THEN /\ lastEvent'.kind = "hit"
                     /\ lastEvent'.cid = memoryCache[name].cid
                     /\ req'.pc = "idle"
                     /\ memoryCache' = memoryCache
                ELSE /\ lastEvent'.kind = "request"
                     /\ req' = [pc |-> "resolving", name |-> name]
                     /\ name \notin DOMAIN memoryCache'
       /\ ResolveSucceeds =>
            /\ req.name \in DOMAIN memoryCache'
            /\ memoryCache'[req.name] = [cid |-> lastEvent'.cid, expiresAt |-> now + cacheTtl]
      ]_vars

\* an entry stored a millisecond ago by a collaborator call has been returned
C30_Witness ==
    /\ lastEvent.kind = "hit" /\ lastEvent.cid = CidB
    /\ now = 2 /\ memoryCache["a.eth"].expiresAt = 1 + cacheTtl

\* start() of the server, and with it HeliosClient.start(), is called in this step.
StartStep == server # "running" /\ server' = "running"

\* C31: a start() after stop() on the same client begins a new sync, so that
\* the client becomes ready again: when start() has been called the client
\* is ready or a sync is under way, never idle and not ready.
C31_StartAfterStopSyncsAgain ==
    [][StartStep => (isReady(helios') \/ helios'.syncPromise = "pending")]_vars

\* Cycle i asks the content store for a copy or a pin in this step.
IssuesCopyOrPin(i) == cycles'[i] # cycles[i] /\ cycles'[i].pc \in {"cp", "pin"}

\* C32: once disableAutoSeeding(d) has completed (the flag of d is gone and
\* no disable of d is waiting for its unpin), no cycle asks for a copy or a
\* pin for d, also not a cycle that listed d before the flag was removed.
C32_NoCopyOrPinAfterDisable ==
    [][\A i \in DOMAIN cycles :
          IssuesCopyOrPin(i) =>
             LET d == cycles'[i].list[cycles'[i].idx].domain
             IN  \/ isAutoSeedingEnabled(cache, d)
                 \/ admin.pc = "disable" /\ admin.name = d]_vars

\* A content request for name n is served, and its identifier saved, in this step.
RequestSaves(n) ==
    /\ lastEvent'.kind \in {"hit", "resolved"}
    /\ lastEvent'.name = n
    /\ lastEvent'.saved

\* C33: a domain whose cache has been cleared has no directory and no
\* durable record until a client request for it is resolved; a reconciler
\* cycle that was in flight when the cache was cleared recreates neither.
C33_ClearedStaysClearedUntilRequest ==
    [][\A n \in DOMAIN cache :
          (~cache[n].dir /\ ~RequestSaves(n)) => cache'[n] = NoDir]_vars

\* The resolveENS of cycle i answers an identifier equal, as a CID, to the cached one.
ResolvesEqual(i) ==
    /\ cycles[i].pc = "resolve"
    /\ lastEvent'.kind = "resolved" /\ lastEvent'.slot = i /\ ~lastEvent'.err
    /\ CidEquals(lastEvent'.old, lastEvent'.cid)

\* C34: when the identifier resolved for a domain equals the cached one as a
\* CID, also when the two strings differ, the cycle makes no copy, no pin and
\* no save for that domain: it moves on to a later domain or ends, and no
\* update is ever under way for an identifier equal to the cached one.
C34_EqualCidsMeanNoUpdate ==
    /\ [](\A i \in DOMAIN cycles :
            cycles[i].pc \in {"cp", "pin"} =>
               ~CidEquals(cycles[i].list[cycles[i].idx].cid, cycles[i].newCid))
    /\ [][\A i \in DOMAIN cycles :
            ResolvesEqual(i) =>
               /\ cycles'[i].pc = "idle" \/ cycles'[i].idx > cycles[i].idx
               /\ cache' = cache /\ pinned' = pinned /\ mfs' = mfs]_vars

\* a cycle has been answered the base32 form of an identifier cached in
\* base58btc and has gone on to the second domain
C34_Witness ==
    /\ lastEvent.kind = "resolved" /\ ~lastEvent.err
    /\ lastEvent.old = CidAz /\ lastEvent.cid = CidA
    /\ lastEvent.name = "a.eth"
    /\ cycles[lastEvent.slot].pc = "resolve" /\ cycles[lastEvent.slot].idx = 2
    /\ getLatestCid(cache, "a.eth") = CidAz

\* the slots in which a cycle is begun in this step
Begun == {i \in DOMAIN cycles : cycles'[i] # cycles[i]}

\* the first cycle step of a call of checkAutoSeedingUpdates() made now
FirstStep == cycleAdvance(autoSeedingDomains(cache), 1, memoryCache, now)

\* C35: starting the reconciler sets the timer and runs one cycle at once;
\* afterwards a cycle is begun only by the timer, one per tick, and only
\* while the timer is set; starting again while it runs changes nothing (no
\* second timer, no further cycle); stopping clears the timer.
C35_StartRunsOneCycleAndOneTimer ==
    [][/\ lastEvent'.kind = "start" /\ nOps' = nOps + 1 =>
            /\ ~autoSeedingInterval /\ autoSeedingInterval'
            /\ cycles' = [cycles EXCEPT ![lastEvent'.slot] = FirstStep.slot]
       /\ lastEvent'.kind = "timer" /\ nOps' = nOps + 1 =>
            /\ autoSeedingInterval /\ autoSeedingInterval'
            /\ cycles' = [cycles EXCEPT ![lastEvent'.slot] = FirstStep.slot]
       /\ lastEvent'.kind = "start-again" /\ nOps' = nOps + 1 =>
            /\ autoSeedingInterval /\ autoSeedingInterval'
            /\ cycles' = cycles
       /\ lastEvent'.kind = "stop" /\ lastEvent' # lastEvent => ~autoSeedingInterval'
       /\ \A i \in DOMAIN cycles :
            (cycles[i].pc = "idle" /\ cycles'[i].pc # "idle") =>
                lastEvent'.kind \in {"start", "timer"} /\ lastEvent'.slot = i
      ]_vars

\* the loop has been started again while its first cycle is waiting for the
\* resolver: still one cycle
C35_Witness ==
    /\ lastEvent.kind = "start-again"
    /\ autoSeedingInterval
    /\ Cardinality(InFlight) = 1
    /\ \E i \in InFlight : cycles[i].pc = "resolve"

\* a content request is waiting for its answer
Unanswered == req.pc # "idle" \/ lastEvent.status = "proxied"
\* the latest content request has got its terminal response
Answered36 == req.pc = "idle" /\ lastEvent.status \in {"upstream", "404", "500"}

ServedStep == lastEvent'.saved /\ lastEvent'.kind \in {"hit", "resolved"} /\ req'.pc = "idle"
                /\ (req.pc = "resolving" \/ nOps' = nOps + 1)

\* The proxy stage of a request ends in this step, after its copy into the cache location.
AnsweredStep == lastEvent.status = "proxied" /\ lastEvent'.kind = "answered"

SanCovers(san, servername) ==
    LET s == Split(san)
        n == Split(servername)
    IN  /\ Len(s) = Len(n)
        /\ \A k \in DOMAIN s : s[k] = n[k] \/ (k = 1 /\ s[k] = <<Star>>)

\* C38: the chain the SNI callback selects for a server name under
\* .eth.<base> starts with a leaf one of whose subject alternative names
\* covers that server name, however many labels stand in front of .eth.<base>.
C38_SelectedLeafCoversServerName ==
    (/\ lastHandshake.ctx.kind = "context"
     /\ EndsWith(lastHandshake.servername, <<Dot, "eth", Dot>> \o domain)
     /\ ~IsNodeName(lastHandshake.servername, domain))
    => \E san \in lastHandshake.ctx.chain[1].san : SanCovers(san, lastHandshake.servername)

\* ---- saves under a system clock that can be set back ----

\* Date.now() reads the wall clock, which the system can set back (NTP, the
\* administrator): by a millisecond, or to the start of the model's time.
ClockSetBack ==
    /\ nTicks < MaxTicks
    /\ \E t \in {0, now - 1} : t >= 0 /\ t < now /\ now' = t
    /\ nTicks' = nTicks + 1
    /\ lastEvent' = [NoEvent EXCEPT !.kind = "clock"]
    /\ UNCHANGED <<cache, memoryCache, pinned, mfs, autoSeedingInterval, cycles, req,
                   admin, nOps>>
    /\ UNCHANGED <<caVars, routerVars, proxyCache>>

NextClock == Tick \/ ClockSetBack \/ Request \/ RequestResolved

SpecClock == InitSeeding /\ [][NextClock]_vars

\* C39: once saveCidIfChanged(name, cid) has returned true, getLatestCid(name)
\* returns cid, and goes on returning it until the next save that returns
\* true, whatever timestamps Date.now() supplies to the saves.
C39_LatestIsTheLastChangingSave ==
    /\ [](lastEvent.wrote => getLatestCid(cache, lastEvent.name) = lastEvent.cid)
    /\ [][~lastEvent'.wrote =>
            \A n \in DOMAIN cache : getLatestCid(cache', n) = getLatestCid(cache, n)]_vars

\* ---- the reconciler while the resolver keeps answering one new identifier ----

\* The auto-seeded a.eth is on record with CidA; from now on the resolver
\* answers CidB, the content store answers every call, and the timer of the
\* reconciler loop goes on firing.
CidNew == CidB

InitReconcile ==
    /\ InitSeeding
    /\ cache["a.eth"] = DirWith(Put(<<>>, 0, CidA), TRUE)

NoProxyPending == lastEvent.status # "proxied"

\* the setInterval callback, as often as the timer fires
TimerFires ==
    /\ NoProxyPending
    /\ autoSeedingInterval
    /\ InFlight # DOMAIN cycles
    /\ LET r == cycleAdvance(autoSeedingDomains(cache), 1, memoryCache, now)
       IN  /\ cycles' = [cycles EXCEPT ![FreeSlot] = r.slot]
           /\ memoryCache' = r.mem
    /\ lastEvent' = [NoEvent EXCEPT !.kind = "timer", !.slot = FreeSlot]
    /\ UNCHANGED <<now, nTicks, cache, pinned, mfs, autoSeedingInterval, req, admin, nOps>>
    /\ UNCHANGED <<caVars, routerVars, proxyCache>>

LoopStarts == StartLoop /\ NoProxyPending

\* resolveENS answers the new identifier
CycleResolvesNew ==
    /\ CycleResolved /\ NoProxyPending
    /\ lastEvent'.ok /\ lastEvent'.cid = CidNew

\* the disk takes the record a save writes
DiskWrites ==
    lastEvent'.saved => getLatestCid(cache', lastEvent'.name) = lastEvent'.cid

RequestLooksUp == RequestInTurn /\ DiskWrites

RequestResolvesNew ==
    /\ RequestResolved /\ DiskWrites
    /\ lastEvent'.ok /\ lastEvent'.cid = CidNew

\* files.cp answers as the content store does: the copy is made unless the
\* destination /localnode-cache/<cid> is there already, in which case the
\* call is rejected
CopyAnswered ==
    /\ CycleCopied /\ NoProxyPending
    /\ lastEvent'.ok <=> lastEvent'.cid \notin mfs

\* pin.add answers with success
PinAnswered ==
    /\ CyclePinned /\ NoProxyPending
    /\ lastEvent'.ok

NextReconcile ==
    \/ TickInTurn
    \/ LoopStarts \/ TimerFires
    \/ CycleResolvesNew \/ CopyAnswered \/ PinAnswered
    \/ RequestLooksUp \/ RequestResolvesNew \/ ProxyAnswered

SpecReconcile ==
    /\ InitReconcile /\ [][NextReconcile]_vars
    /\ WF_vars(TimerFires) /\ WF_vars(CycleResolvesNew)
    /\ WF_vars(CopyAnswered) /\ WF_vars(PinAnswered)
    /\ WF_vars(RequestResolvesNew) /\ WF_vars(ProxyAnswered)

\* C40: while the resolver answers cidNew for the auto-seeded domain and the
\* collaborators answer, the running reconciler gets, after finitely many
\* cycles, to a state where cidNew is pinned and is the latest durable
\* identifier of the domain, also when cidNew is in the MFS cache location
\* already.
C40_NewIdentifierEventuallySeeded ==
    autoSeedingInterval ~>
        (CidNew \in pinned /\ getLatestCid(cache, "a.eth") = CidNew)

====
